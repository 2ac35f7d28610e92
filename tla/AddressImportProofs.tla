------------------------ MODULE AddressImportProofs ------------------------
(***************************************************************************)
(* Proofs about batch imports, for every number of workers, tasks and      *)
(* attempts, every batch size and every number of faults.                  *)
(***************************************************************************)
EXTENDS AddressImport, FiniteSetTheorems, TLAPS

-----------------------------------------------------------------------------
(* Types.                                                                  *)

\* A set of rows has between none and AttemptCount elements.
LEMMA RowsAreFinite ==
    ASSUME NEW S \in SUBSET Rows
    PROVE  /\ IsFiniteSet(S)
           /\ Cardinality(S) \in 0..AttemptCount
  <1>1. IsFiniteSet(Rows) /\ Cardinality(Rows) = AttemptCount
    BY FS_Interval, AddressImportAssumption DEF Rows
  <1>2. IsFiniteSet(S) /\ Cardinality(S) <= Cardinality(Rows)
    BY <1>1, FS_Subset
  <1>3. Cardinality(S) \in Nat
    BY <1>2, FS_CardinalityType
  <1> QED BY <1>1, <1>2, <1>3, AddressImportAssumption

\* Counts are rows of counts, whatever is counted.
LEMMA CountsAreTyped == \A status : CountsOf(status) \in CountsRow
  <1> SUFFICES ASSUME NEW status PROVE CountsOf(status) \in CountsRow
    OBVIOUS
  <1> DEFINE P == {r \in Rows : status[r] # "pending"}
             S == {r \in Rows : status[r] = "success"}
             F == {r \in Rows : status[r] = "failed"}
  <1>1. P \in SUBSET Rows /\ S \in SUBSET Rows /\ F \in SUBSET Rows
    OBVIOUS
  <1> HIDE DEF P, S, F
  <1>2. /\ Cardinality(P) \in 0..AttemptCount
        /\ Cardinality(S) \in 0..AttemptCount
        /\ Cardinality(F) \in 0..AttemptCount
    BY <1>1, RowsAreFinite
  <1>3. [processed |-> Cardinality(P), success |-> Cardinality(S),
         failed |-> Cardinality(F)] \in CountsRow
    BY <1>2 DEF CountsRow
  <1> QED BY <1>3 DEF CountsOf, P, S, F

LEMMA InitialRows ==
    /\ NoCounts \in CountsRow
    /\ NoTask \in TaskRow
    /\ IdleWorker \in WorkerState
  <1>1. NoCounts \in CountsRow
    BY AddressImportAssumption DEF NoCounts, CountsRow
  <1>2. NoTask \in TaskRow
    BY <1>1 DEF NoTask, TaskRow
  <1>3. IdleWorker \in WorkerState
    BY <1>1 DEF IdleWorker, WorkerState
  <1> QED BY <1>1, <1>2, <1>3

\* A fault leaves the number of faults that may still happen typed.
LEMMA FaultsAreTyped ==
    ASSUME faults \in 0..MaxFaults, Fault \/ UNCHANGED faults
    PROVE  faults' \in 0..MaxFaults
  BY AddressImportAssumption DEF Fault

\* Either way, an answer leaves the workers typed.
LEMMA AnswerIsTyped ==
    ASSUME TypeOK, NEW w \in Workers, NEW m \in WorkerState, Answer(w, m)
    PROVE  /\ worker' \in [Workers -> WorkerState]
           /\ faults' \in 0..MaxFaults
  BY InitialRows, FaultsAreTyped DEF TypeOK, Answer

\* A worker keeps its type when one more thing it remembers changes.
LEMMA EditedWorker ==
    ASSUME NEW m \in WorkerState
    PROVE  /\ \A b \in SUBSET Rows : [m EXCEPT !.batch = b] \in WorkerState
           /\ \A n \in 0..2 : [m EXCEPT !.refreshes = n] \in WorkerState
           /\ \A c \in CountsRow : [m EXCEPT !.counts = c] \in WorkerState
           /\ \A p \in {"refresh", "check", "write", "attempt"} :
                 [m EXCEPT !.pc = p] \in WorkerState
  BY SMTT(150) DEF WorkerState

LEMMA ContinueIsTyped ==
    ASSUME NEW m \in WorkerState, NEW batch \in SUBSET Rows
    PROVE  Continue(m, batch) \in WorkerState
  <1>1. [[m EXCEPT !.pc = "attempt"] EXCEPT !.batch = batch] \in WorkerState
    <2>1. [m EXCEPT !.pc = "attempt"] \in WorkerState
      BY EditedWorker
    <2> QED BY <2>1, EditedWorker
  <1>2. [m EXCEPT !.pc = "refresh", !.batch = {}, !.refreshes = 2] \in WorkerState
    <2>1. [m EXCEPT !.pc = "refresh"] \in WorkerState
      BY EditedWorker
    <2>2. [[m EXCEPT !.pc = "refresh"] EXCEPT !.batch = {}] \in WorkerState
      BY <2>1, EditedWorker
    <2>3. [[[m EXCEPT !.pc = "refresh"] EXCEPT !.batch = {}] EXCEPT !.refreshes = 2]
             \in WorkerState
      <3>1. 2 \in 0..2
        OBVIOUS
      <3> QED BY <2>2, <3>1, EditedWorker, Zenon
    <2> QED BY <2>3
  <1> QED BY <1>1, <1>2 DEF Continue

\* One more outcome leaves the attempts typed.
LEMMA MarkIsTyped ==
    ASSUME TypeOK, NEW t, NEW r, NEW outcome \in AttemptStatus, Mark(t, r, outcome)
    PROVE  attempt' \in [Tasks -> [Rows -> AttemptStatus]]
  <1>1. CASE t \in Tasks
    <2> DEFINE new == IF task[t].status = "cancelled" THEN attempt[t][r] ELSE outcome
    <2>1. attempt' = [attempt EXCEPT ![t][r] = new]
      BY DEF Mark
    <2>2. r \in Rows => new \in AttemptStatus
      BY <1>1 DEF TypeOK
    <2> HIDE DEF new
    <2>3. attempt[t] \in [Rows -> AttemptStatus]
      BY <1>1 DEF TypeOK
    <2>4. [attempt[t] EXCEPT ![r] = new] \in [Rows -> AttemptStatus]
      BY <2>2, <2>3
    <2> QED BY <1>1, <2>1, <2>4 DEF TypeOK
  <1>2. CASE t \notin Tasks
    BY <1>2 DEF Mark, TypeOK
  <1> QED BY <1>1, <1>2

LEMMA TypesAreInitial == Init => TypeOK
  BY InitialRows, AddressImportAssumption DEF Init, TypeOK, AttemptStatus

\* Every action leaves every row and every worker's memory typed.
LEMMA TypesArePreserved ==
    ASSUME TypeOK, [Next]_vars
    PROVE  TypeOK'
  <1> USE DEF TypeOK
  <1>1. ASSUME NEW t \in Tasks, SubmitImport(t) PROVE TypeOK'
    BY ZenonT(150), <1>1 DEF SubmitImport, TaskRow, OpenStatus
  <1>2. ASSUME NEW t \in Tasks, CancelImport(t) PROVE TypeOK'
    <2> DEFINE skipped == [r \in Rows |-> IF attempt[t][r] = "pending" THEN "skipped"
                                          ELSE attempt[t][r]]
               row == [status |-> "cancelled", owner |-> None, stale |-> FALSE,
                       counts |-> CountsOf(skipped)]
    <2>1. skipped \in [Rows -> AttemptStatus]
      BY DEF AttemptStatus
    <2>2. row \in TaskRow
      BY CountsAreTyped DEF TaskRow
    <2>3. /\ attempt' = [attempt EXCEPT ![t] = skipped]
          /\ task' = [task EXCEPT ![t] = row]
      BY <1>2 DEF CancelImport
    <2> HIDE DEF skipped, row
    <2> QED BY ZenonT(150), <1>2, <2>1, <2>2, <2>3 DEF CancelImport
  <1>3. ASSUME NEW t \in Tasks, AbandonedLockAges(t) PROVE TypeOK'
    BY ZenonT(150), <1>3 DEF AbandonedLockAges, LockAges, TaskRow
  <1>4. ASSUME NEW t \in Tasks, HeldLockAges(t) PROVE TypeOK'
    <2>1. task' \in [Tasks -> TaskRow]
      BY ZenonT(150), <1>4 DEF HeldLockAges, LockAges, TaskRow
    <2> QED BY <1>4, <2>1, FaultsAreTyped DEF HeldLockAges, LockAges
  <1>5. ASSUME NEW w \in Workers, ClaimTask(w) PROVE TypeOK'
    <2>1. PICK t \in Claimable(w) :
             /\ task' = [task EXCEPT ![t].status = "running", ![t].owner = w,
                                     ![t].stale = FALSE]
             /\ Answer(w, [IdleWorker EXCEPT !.pc = "renew", !.task = t])
      BY <1>5 DEF ClaimTask
    <2>2. t \in Tasks
      BY <2>1 DEF Claimable
    <2>3. task' \in [Tasks -> TaskRow]
      <3>1. [task[t] EXCEPT !.status = "running", !.owner = w, !.stale = FALSE] \in TaskRow
        BY ZenonT(150), <2>2 DEF TaskRow, OpenStatus
      <3> QED BY <2>1, <2>2, <3>1
    <2>4. [IdleWorker EXCEPT !.pc = "renew", !.task = t] \in WorkerState
      BY <2>2, InitialRows DEF WorkerState
    <2> QED BY SMTT(150), <1>5, <2>1, <2>3, <2>4, AnswerIsTyped DEF ClaimTask
  <1>6. ASSUME NEW w \in Workers, RenewLock(w) PROVE TypeOK'
    <2> DEFINE m == worker[w]
               after == [m EXCEPT !.pc = IF m.pc = "renew" THEN "read" ELSE "create"]
    <2>1. after \in WorkerState
      BY ZenonT(150) DEF WorkerState
    <2>2. Answer(w, after)
      BY <1>6 DEF RenewLock
    <2>3. task' \in [Tasks -> TaskRow]
      BY ZenonT(150), <1>6 DEF RenewLock, TaskRow
    <2> HIDE DEF after
    <2> QED BY <1>6, <2>1, <2>2, <2>3, AnswerIsTyped DEF RenewLock
  <1>7. ASSUME NEW w \in Workers, RenewRefused(w) \/ MarkRefused(w) PROVE TypeOK'
    BY <1>7, InitialRows DEF RenewRefused, MarkRefused
  <1>8. ASSUME NEW w \in Workers, ReadBatch(w) PROVE TypeOK'
    <2>1. PICK batch \in SUBSET Rows :
             worker' = [worker EXCEPT ![w] = Continue(worker[w], batch)]
      <3> DEFINE pending == PendingRows(worker[w].task)
                 first == {r \in pending : Cardinality({q \in pending : q < r}) < BatchSize}
                 batch == IF Owns(w, worker[w].task) THEN first ELSE {}
      <3>1. worker' = [worker EXCEPT ![w] = Continue(worker[w], batch)]
        BY <1>8 DEF ReadBatch
      <3>2. batch \in SUBSET Rows
        BY DEF PendingRows
      <3> QED BY <3>1, <3>2
    <2> QED BY <1>8, <2>1, ContinueIsTyped DEF ReadBatch
  <1>9. ASSUME NEW w \in Workers, CreateAddress(w) PROVE TypeOK'
    <2> DEFINE m == worker[w]
               r == Current(m)
               after == Continue(m, m.batch \ {r})
    <2>1. attempt' \in [Tasks -> [Rows -> AttemptStatus]]
      BY <1>9, MarkIsTyped DEF CreateAddress, AttemptStatus
    <2>2. created' \in [Tasks -> [Rows -> BOOLEAN]]
      BY <1>9 DEF CreateAddress
    <2>3. m \in WorkerState /\ m.batch \ {r} \in SUBSET Rows
      BY DEF WorkerState
    <2>4. after \in WorkerState
      BY <2>3, ContinueIsTyped
    <2>5. [m EXCEPT !.pc = "refuse"] \in WorkerState
      BY ZenonT(150) DEF WorkerState
    <2>6. \/ worker' = [worker EXCEPT ![w] = after] /\ UNCHANGED faults
          \/ worker' = [worker EXCEPT ![w] = [m EXCEPT !.pc = "refuse"]] /\ Fault
      BY <1>9 DEF CreateAddress
    <2> HIDE DEF after
    <2>7. worker' \in [Workers -> WorkerState]
      BY <2>4, <2>5, <2>6
    <2> QED BY <1>9, <2>1, <2>2, <2>6, <2>7, FaultsAreTyped DEF CreateAddress
  <1>10. ASSUME NEW w \in Workers, CreateFails(w) PROVE TypeOK'
    BY ZenonT(150), <1>10 DEF CreateFails, WorkerState
  <1>11. ASSUME NEW w \in Workers, MarkFailed(w) PROVE TypeOK'
    <2> DEFINE m == worker[w]
               r == Current(m)
    <2>1. attempt' \in [Tasks -> [Rows -> AttemptStatus]]
      BY <1>11, MarkIsTyped DEF MarkFailed, AttemptStatus
    <2>2. m \in WorkerState /\ m.batch \ {r} \in SUBSET Rows
      BY DEF WorkerState
    <2>3. Answer(w, Continue(m, m.batch \ {r}))
      BY <1>11 DEF MarkFailed
    <2>4. Continue(m, m.batch \ {r}) \in WorkerState
      BY <2>2, ContinueIsTyped
    <2> QED BY <1>11, <2>1, <2>3, <2>4, AnswerIsTyped DEF MarkFailed
  <1>12. ASSUME NEW w \in Workers, RefreshRead(w) PROVE TypeOK'
    BY ZenonT(150), <1>12, CountsAreTyped DEF RefreshRead, WorkerState
  <1>13. ASSUME NEW w \in Workers, RefreshWrite(w) PROVE TypeOK'
    <2> DEFINE m == worker[w]
               after == IF m.refreshes = 2
                        THEN [m EXCEPT !.pc = "refresh", !.refreshes = 1]
                        ELSE IF task[m.task].status = "running"
                        THEN [m EXCEPT !.pc = "check", !.refreshes = 0]
                        ELSE IdleWorker
    <2>1. m \in WorkerState /\ m.counts \in CountsRow
      BY DEF WorkerState
    <2>2. after \in WorkerState
      <3> HIDE DEF m
      <3>1. [[m EXCEPT !.pc = "refresh"] EXCEPT !.refreshes = 1] \in WorkerState
        <4>1. [m EXCEPT !.pc = "refresh"] \in WorkerState
          BY <2>1, EditedWorker
        <4>2. 1 \in 0..2
          OBVIOUS
        <4> QED BY <4>1, <4>2, EditedWorker, Zenon
      <3>2. [[m EXCEPT !.pc = "check"] EXCEPT !.refreshes = 0] \in WorkerState
        <4>1. [m EXCEPT !.pc = "check"] \in WorkerState
          BY <2>1, EditedWorker
        <4>2. 0 \in 0..2
          OBVIOUS
        <4> QED BY <4>1, <4>2, EditedWorker, Zenon
      <3> QED BY <3>1, <3>2, InitialRows
    <2>3. Answer(w, after)
      BY <1>13 DEF RefreshWrite
    <2>4. task' = [task EXCEPT ![m.task].counts = m.counts]
      BY <1>13 DEF RefreshWrite
    <2>5. task' \in [Tasks -> TaskRow]
      BY ZenonT(150), <2>1, <2>4 DEF TaskRow
    <2> HIDE DEF after
    <2> QED BY <1>13, <2>2, <2>3, <2>5, AnswerIsTyped DEF RefreshWrite
  <1>14. ASSUME NEW w \in Workers, CheckPending(w) PROVE TypeOK'
    BY ZenonT(150), <1>14, InitialRows DEF CheckPending, WorkerState
  <1>15. ASSUME NEW w \in Workers, Complete(w) PROVE TypeOK'
    <2> DEFINE t == worker[w].task
               final == FinalStatus(worker[w].counts)
    <2>1. task' \in [Tasks -> TaskRow]
      <3>1. final \in FinishedStatus
        BY DEF FinishedStatus, FinalStatus
      <3>2. \/ UNCHANGED task
            \/ task' = [task EXCEPT ![t].status = final, ![t].owner = None,
                                    ![t].stale = FALSE]
        BY <1>15 DEF Complete
      <3> HIDE DEF final
      <3>3. ASSUME t \in Tasks
            PROVE  [task[t] EXCEPT !.status = final, !.owner = None, !.stale = FALSE]
                      \in TaskRow
        <4>1. task[t] \in TaskRow
          BY <3>3
        <4> HIDE DEF t
        <4> QED BY <3>1, <4>1 DEF TaskRow, FinishedStatus
      <3> QED BY ZenonT(150), <3>2, <3>3
    <2>2. Answer(w, IdleWorker)
      BY <1>15 DEF Complete
    <2> QED BY <1>15, <2>1, <2>2, InitialRows, AnswerIsTyped DEF Complete
  <1>16. ASSUME NEW w \in Workers, StatementFails(w) PROVE TypeOK'
    BY <1>16, InitialRows, FaultsAreTyped DEF StatementFails
  <1>17. ASSUME NEW w \in Workers, Crash(w) PROVE TypeOK'
    BY <1>17, InitialRows DEF Crash, WorkerState
  <1>18. CASE UNCHANGED vars
    BY <1>18 DEF vars
  <1> QED
    BY SMTT(150), <1>1, <1>2, <1>3, <1>4, <1>5, <1>6, <1>7, <1>8, <1>9, <1>10, <1>11,
       <1>12, <1>13, <1>14, <1>15, <1>16, <1>17, <1>18 DEF Next, WorkerStep

\* Every row and every worker's memory keeps its type, whoever works on it.
THEOREM ImportTypes == Spec => []TypeOK
  <1>1. Init => TypeOK
    BY TypesAreInitial
  <1>2. TypeOK /\ [Next]_vars => TypeOK'
    BY TypesArePreserved
  <1> QED BY <1>1, <1>2, PTL DEF Spec

-----------------------------------------------------------------------------
(* Outcomes and addresses.                                                 *)

\* A worker remembers a task while it processes one.
Remembers(m) == IF m.pc \in {"idle", "dead"} THEN m.task = None ELSE m.task \in Tasks

WorkerMemory == \A w \in Workers : Remembers(worker[w])

\* What a worker found when it looked for pending attempts stays true.
NothingLeft ==
    \A w \in Workers, t \in Tasks :
        worker[w].pc = "complete" /\ worker[w].task = t => PendingRows(t) = {}

SkippedMeansCancelled ==
    \A t \in Tasks, r \in Rows : attempt[t][r] = "skipped" => task[t].status = "cancelled"

Outcomes == SkippedMeansCancelled /\ FinishedMeansProcessed /\ AddressesAreAccounted

ImportInv == TypeOK /\ WorkerMemory /\ NothingLeft /\ Outcomes

\* A worker moves, and no attempt becomes pending again.
LEMMA WorkerMoves ==
    ASSUME ImportInv, NEW w \in Workers, NEW m,
           worker' = [worker EXCEPT ![w] = m],
           Remembers(m),
           \A t \in Tasks : m.pc = "complete" /\ m.task = t => PendingRows(t) = {},
           \A t \in Tasks : PendingRows(t)' \subseteq PendingRows(t)
    PROVE  WorkerMemory' /\ NothingLeft'
  <1>1. \A v \in Workers : worker'[v] = IF v = w THEN m ELSE worker[v]
    BY DEF ImportInv, TypeOK
  <1>2. WorkerMemory'
    BY <1>1 DEF ImportInv, WorkerMemory, Remembers
  <1>3. NothingLeft'
    <2> SUFFICES ASSUME NEW v \in Workers, NEW t \in Tasks,
                        worker'[v].pc = "complete", worker'[v].task = t
                 PROVE  PendingRows(t)' = {}
      BY SMTT(150) DEF NothingLeft
    <2>1. PendingRows(t) = {}
      BY <1>1 DEF ImportInv, NothingLeft
    <2> QED BY <2>1
  <1> QED BY <1>2, <1>3

\* A worker that gives up.
LEMMA WorkerGivesUp ==
    Remembers(IdleWorker) /\ Remembers([IdleWorker EXCEPT !.pc = "dead"])
  BY DEF Remembers, IdleWorker

LEMMA WorkerAnswered ==
    ASSUME ImportInv, NEW w \in Workers, NEW m, Answer(w, m),
           Remembers(m),
           \A t \in Tasks : m.pc = "complete" /\ m.task = t => PendingRows(t) = {},
           \A t \in Tasks : PendingRows(t)' \subseteq PendingRows(t)
    PROVE  WorkerMemory' /\ NothingLeft'
  <1>1. CASE worker' = [worker EXCEPT ![w] = m]
    BY <1>1, WorkerMoves
  <1>2. CASE worker' = [worker EXCEPT ![w] = IdleWorker]
    <2>1. IdleWorker.pc # "complete"
      BY DEF IdleWorker
    <2> QED BY <1>2, <2>1, WorkerMoves, WorkerGivesUp
  <1> QED BY <1>1, <1>2 DEF Answer

LEMMA WorkersStay ==
    ASSUME ImportInv, UNCHANGED worker,
           \A t \in Tasks : PendingRows(t)' \subseteq PendingRows(t)
    PROVE  WorkerMemory' /\ NothingLeft'
  BY DEF ImportInv, WorkerMemory, NothingLeft, Remembers

\* Attempts and addresses stay as they are, no cancellation is taken back,
\* and only a task without pending attempts is finished.
LEMMA OutcomesStay ==
    ASSUME ImportInv, UNCHANGED <<attempt, created>>,
           \A t \in Tasks : task[t].status = "cancelled" => task'[t].status = "cancelled",
           \A t \in Tasks : task'[t].status \in FinishedStatus \cup {"cancelled"} =>
               PendingRows(t) = {}
    PROVE  /\ Outcomes'
           /\ \A t \in Tasks : PendingRows(t)' \subseteq PendingRows(t)
  BY DEF ImportInv, Outcomes, SkippedMeansCancelled, FinishedMeansProcessed,
         AddressesAreAccounted, PendingRows

\* The same when no status changes at all.
LEMMA StatusStays ==
    ASSUME ImportInv, UNCHANGED <<attempt, created>>,
           \A t \in Tasks : task'[t].status = task[t].status
    PROVE  /\ Outcomes'
           /\ \A t \in Tasks : PendingRows(t)' \subseteq PendingRows(t)
  <1>1. \A t \in Tasks : task'[t].status \in FinishedStatus \cup {"cancelled"} =>
            PendingRows(t) = {}
    BY DEF ImportInv, Outcomes, FinishedMeansProcessed
  <1> QED BY <1>1, OutcomesStay

\* What a mark does to each attempt.
LEMMA MarkedAttempts ==
    ASSUME TypeOK, NEW t \in Tasks, NEW r, NEW outcome, Mark(t, r, outcome)
    PROVE  \A s \in Tasks, q \in Rows :
             attempt'[s][q] = IF s = t /\ q = r /\ task[t].status # "cancelled"
                              THEN outcome ELSE attempt[s][q]
  BY DEF Mark, TypeOK

\* An outcome that matches keeps attempts and addresses in agreement, if the
\* address is created together with a success and only then.
LEMMA OutcomeIsRecorded ==
    ASSUME ImportInv, NEW w \in Workers, NEW t \in Tasks, NEW r,
           NEW outcome \in {"success", "failed"},
           MarkMatches(w, t, r), Mark(t, r, outcome), UNCHANGED task,
           IF outcome = "success" THEN created' = [created EXCEPT ![t][r] = TRUE]
                                  ELSE UNCHANGED created
    PROVE  /\ Outcomes'
           /\ \A s \in Tasks : PendingRows(s)' \subseteq PendingRows(s)
  <1> USE DEF ImportInv, TypeOK
  <1>1. \A s \in Tasks, q \in Rows :
          attempt'[s][q] = IF s = t /\ q = r /\ task[t].status # "cancelled"
                           THEN outcome ELSE attempt[s][q]
    BY MarkedAttempts
  <1>2. \A s \in Tasks, q \in Rows :
          created'[s][q] = IF s = t /\ q = r /\ outcome = "success"
                           THEN TRUE ELSE created[s][q]
    <2>1. CASE outcome = "success"
      <3>1. created' = [created EXCEPT ![t] = [created[t] EXCEPT ![r] = TRUE]]
        BY <2>1
      <3>2. \A s \in Tasks :
              created'[s] = IF s = t THEN [created[t] EXCEPT ![r] = TRUE] ELSE created[s]
        BY <3>1
      <3>3. \A q \in Rows :
              [created[t] EXCEPT ![r] = TRUE][q] = IF q = r THEN TRUE ELSE created[t][q]
        OBVIOUS
      <3> QED BY <2>1, <3>2, <3>3
    <2>2. CASE outcome # "success"
      BY <2>2
    <2> QED BY <2>1, <2>2
  <1>3. \A s \in Tasks : PendingRows(s)' \subseteq PendingRows(s)
    BY SMTT(150), <1>1 DEF PendingRows
  <1>4. SkippedMeansCancelled'
    BY SMTT(150), <1>1 DEF Outcomes, SkippedMeansCancelled
  <1>5. FinishedMeansProcessed'
    BY <1>3 DEF Outcomes, FinishedMeansProcessed
  <1>6. AddressesAreAccounted'
    <2> SUFFICES ASSUME NEW s \in Tasks, NEW q \in Rows
                 PROVE  /\ attempt'[s][q] = "success" => created'[s][q]
                        /\ attempt'[s][q] \in {"failed", "pending"} => ~created'[s][q]
      BY DEF AddressesAreAccounted
    <2>1. /\ attempt[s][q] = "success" => created[s][q]
          /\ attempt[s][q] \in {"failed", "pending"} => ~created[s][q]
      BY DEF Outcomes, AddressesAreAccounted
    <2>2. CASE s = t /\ q = r
      <3>1. CASE task[t].status = "cancelled"
        <4>1. attempt[t][r] # "pending"
          BY <2>2, <3>1 DEF Outcomes, FinishedMeansProcessed, PendingRows
        <4>2. attempt'[s][q] = "skipped"
          BY <1>1, <2>2, <3>1, <4>1 DEF MarkMatches, Owns
        <4> QED BY <4>2
      <3>2. CASE task[t].status # "cancelled"
        <4>1. attempt'[s][q] = outcome /\ attempt[s][q] = "pending"
          BY <1>1, <2>2, <3>2 DEF MarkMatches
        <4>2. created'[s][q] = IF outcome = "success" THEN TRUE ELSE created[s][q]
          BY <1>2, <2>2
        <4> QED BY <2>1, <4>1, <4>2
      <3> QED BY <3>1, <3>2
    <2>3. CASE ~(s = t /\ q = r)
      BY <1>1, <1>2, <2>1, <2>3
    <2> QED BY <2>2, <2>3
  <1> QED BY <1>3, <1>4, <1>5, <1>6 DEF Outcomes

LEMMA ImportInvIsInitial == Init => ImportInv
  <1> SUFFICES ASSUME Init PROVE ImportInv
    OBVIOUS
  <1>1. WorkerMemory /\ NothingLeft
    BY DEF Init, IdleWorker, WorkerMemory, Remembers, NothingLeft
  <1>2. Outcomes
    BY AddressImportAssumption
       DEF Init, NoTask, Outcomes, SkippedMeansCancelled, FinishedMeansProcessed,
           AddressesAreAccounted, FinishedStatus
  <1> QED BY <1>1, <1>2, TypesAreInitial DEF ImportInv

\* Every action keeps attempts, addresses and the tasks' statuses in agreement.
LEMMA ImportInvIsPreserved ==
    ASSUME ImportInv, [Next]_vars
    PROVE  ImportInv'
  <1> USE DEF ImportInv, TypeOK
  <1> DEFINE Goal == WorkerMemory' /\ NothingLeft' /\ Outcomes'
  <1>0. TypeOK'
    BY TypesArePreserved
  <1>1. ASSUME NEW t \in Tasks, SubmitImport(t) PROVE Goal
    <2>1. \A s \in Tasks : task'[s].status = IF s = t THEN "pending" ELSE task[s].status
      BY <1>1 DEF SubmitImport, TaskRow
    <2>2. \A s \in Tasks : task'[s].status \in FinishedStatus \cup {"cancelled"} =>
              PendingRows(s) = {}
      BY SMTT(150), <2>1 DEF Outcomes, FinishedMeansProcessed, FinishedStatus
    <2>3. task[t].status # "cancelled" /\ UNCHANGED <<attempt, created, worker>>
      BY <1>1 DEF SubmitImport
    <2> QED BY <2>1, <2>2, <2>3, OutcomesStay, WorkersStay
  <1>2. ASSUME NEW t \in Tasks, CancelImport(t) PROVE Goal
    <2>1. /\ task[t].status \in OpenStatus
          /\ UNCHANGED <<created, worker>>
          /\ \A s \in Tasks : s # t => task'[s] = task[s]
          /\ task'[t].status = "cancelled"
      BY <1>2 DEF CancelImport
    <2>2. \A s \in Tasks, r \in Rows :
            attempt'[s][r] = IF s = t /\ attempt[s][r] = "pending" THEN "skipped"
                             ELSE attempt[s][r]
      BY <1>2 DEF CancelImport
    <2>3. \A s \in Tasks : PendingRows(s)' \subseteq PendingRows(s)
      BY <2>2 DEF PendingRows
    <2>4. PendingRows(t)' = {}
      BY <2>2 DEF PendingRows
    <2>5. SkippedMeansCancelled'
      BY SMTT(150), <2>1, <2>2 DEF Outcomes, SkippedMeansCancelled
    <2>6. FinishedMeansProcessed'
      BY <2>1, <2>3, <2>4 DEF Outcomes, FinishedMeansProcessed
    <2>7. AddressesAreAccounted'
      BY <2>1, <2>2 DEF Outcomes, AddressesAreAccounted
    <2>8. WorkerMemory' /\ NothingLeft'
      BY <2>1, <2>3, WorkersStay
    <2> QED BY <2>5, <2>6, <2>7, <2>8 DEF Outcomes
  <1>3. ASSUME NEW t \in Tasks, AbandonedLockAges(t) \/ HeldLockAges(t) PROVE Goal
    <2>1. /\ UNCHANGED <<attempt, created, worker>>
          /\ task' = [task EXCEPT ![t].stale = TRUE]
      BY <1>3 DEF AbandonedLockAges, HeldLockAges, LockAges
    <2>2. \A s \in Tasks : task'[s].status = task[s].status
      BY <2>1 DEF TaskRow
    <2> QED BY <2>1, <2>2, StatusStays, WorkersStay
  <1>4. ASSUME NEW w \in Workers, ClaimTask(w) PROVE Goal
    <2>1. PICK t \in Claimable(w) :
             /\ task' = [task EXCEPT ![t].status = "running", ![t].owner = w,
                                     ![t].stale = FALSE]
             /\ Answer(w, [IdleWorker EXCEPT !.pc = "renew", !.task = t])
      BY <1>4 DEF ClaimTask
    <2> DEFINE m == [IdleWorker EXCEPT !.pc = "renew", !.task = t]
    <2>2. t \in Tasks /\ task[t].status \in OpenStatus
      BY <2>1 DEF Claimable, Owns, OpenStatus
    <2>3. \A s \in Tasks : task'[s].status = IF s = t THEN "running" ELSE task[s].status
      BY <2>1, <2>2 DEF TaskRow
    <2>4. UNCHANGED <<attempt, created>>
      BY <1>4 DEF ClaimTask
    <2>5. \A s \in Tasks : task'[s].status \in FinishedStatus \cup {"cancelled"} =>
              PendingRows(s) = {}
      BY SMTT(150), <2>3 DEF Outcomes, FinishedMeansProcessed, FinishedStatus
    <2>6. Outcomes' /\ \A s \in Tasks : PendingRows(s)' \subseteq PendingRows(s)
      BY <2>2, <2>3, <2>4, <2>5, OutcomesStay DEF OpenStatus
    <2>7. Remembers(m) /\ m.pc # "complete"
      BY <2>2 DEF Remembers, IdleWorker
    <2>8. Answer(w, m)
      BY <2>1
    <2> HIDE DEF m
    <2> QED BY SMTT(150), <2>6, <2>7, <2>8, WorkerAnswered
  <1>5. ASSUME NEW w \in Workers, RenewLock(w) PROVE Goal
    <2> DEFINE m == worker[w]
               after == [m EXCEPT !.pc = IF m.pc = "renew" THEN "read" ELSE "create"]
    <2>1. /\ UNCHANGED <<attempt, created>>
          /\ task' = [task EXCEPT ![m.task].stale = FALSE]
          /\ Answer(w, after)
          /\ m.pc \in {"renew", "attempt"}
      BY <1>5 DEF RenewLock
    <2>2. \A s \in Tasks : task'[s].status = task[s].status
      BY <2>1 DEF TaskRow
    <2>3. m \in WorkerState /\ Remembers(m)
      BY DEF WorkerMemory
    <2>4. Remembers(after) /\ after.pc # "complete"
      BY <2>1, <2>3 DEF Remembers, WorkerState
    <2> HIDE DEF after
    <2> QED BY <2>1, <2>2, <2>4, StatusStays, WorkerAnswered
  <1>6. ASSUME NEW w \in Workers, RenewRefused(w) \/ MarkRefused(w) \/ StatementFails(w)
        PROVE  Goal
    <2>1. /\ UNCHANGED <<task, attempt, created>>
          /\ worker' = [worker EXCEPT ![w] = IdleWorker]
      BY <1>6 DEF RenewRefused, MarkRefused, StatementFails
    <2>2. IdleWorker.pc # "complete"
      BY DEF IdleWorker
    <2> QED BY <2>1, <2>2, StatusStays, WorkerMoves, WorkerGivesUp
  <1>7. ASSUME NEW w \in Workers, Crash(w) PROVE Goal
    <2> DEFINE m == [IdleWorker EXCEPT !.pc = "dead"]
    <2>1. UNCHANGED <<task, attempt, created>> /\ worker' = [worker EXCEPT ![w] = m]
      BY <1>7 DEF Crash
    <2>2. m.pc # "complete" /\ Remembers(m)
      BY WorkerGivesUp DEF IdleWorker
    <2> HIDE DEF m
    <2> QED BY <2>1, <2>2, StatusStays, WorkerMoves
  <1>8. ASSUME NEW w \in Workers, NEW m, m \in WorkerState, UNCHANGED <<task, attempt, created>>,
               worker' = [worker EXCEPT ![w] = m],
               worker[w].pc \notin {"idle", "dead"},
               m.task = worker[w].task, m.pc \notin {"idle", "dead"},
               m.pc = "complete" => PendingRows(m.task) = {}
        PROVE  Goal
    <2>1. Remembers(m)
      BY <1>8 DEF WorkerMemory, Remembers
    <2>2. \A t \in Tasks : m.pc = "complete" /\ m.task = t => PendingRows(t) = {}
      BY <1>8
    <2> QED BY <1>8, <2>1, <2>2, StatusStays, WorkerMoves
  <1>9. ASSUME NEW m \in WorkerState, NEW batch
        PROVE  /\ Continue(m, batch).task = m.task
               /\ Continue(m, batch).pc \in {"attempt", "refresh"}
    BY DEF Continue, WorkerState
  <1>10. ASSUME NEW w \in Workers, ReadBatch(w) PROVE Goal
    <2> DEFINE m == worker[w]
    <2>1. PICK batch : /\ worker' = [worker EXCEPT ![w] = Continue(m, batch)]
                       /\ m.pc = "read"
                       /\ UNCHANGED <<task, attempt, created>>
      BY <1>10 DEF ReadBatch
    <2>2. /\ Continue(m, batch).task = m.task
          /\ Continue(m, batch).pc \in {"attempt", "refresh"}
      BY <1>9
    <2>3. Remembers(Continue(m, batch))
      BY <2>1, <2>2 DEF WorkerMemory, Remembers
    <2> QED BY ZenonT(150), <2>1, <2>2, <2>3, StatusStays, WorkerMoves
  <1>11. ASSUME NEW w \in Workers, CreateAddress(w) PROVE Goal
    <2> DEFINE m == worker[w]
               t == m.task
               r == Current(m)
               after == Continue(m, m.batch \ {r})
               refused == [m EXCEPT !.pc = "refuse"]
    <2>1. /\ m.pc = "create"
          /\ MarkMatches(w, t, r)
          /\ created' = [created EXCEPT ![t][r] = TRUE]
          /\ Mark(t, r, "success")
          /\ UNCHANGED task
          /\ \/ worker' = [worker EXCEPT ![w] = after]
             \/ worker' = [worker EXCEPT ![w] = refused]
      BY SMTT(150), <1>11 DEF CreateAddress
    <2>2. t \in Tasks /\ m \in WorkerState
      BY SMTT(150), <2>1 DEF WorkerMemory, Remembers
    <2>3. Outcomes' /\ \A s \in Tasks : PendingRows(s)' \subseteq PendingRows(s)
      BY <2>1, <2>2, OutcomeIsRecorded
    <2>4. Remembers(after) /\ after.pc # "complete"
      BY ZenonT(150), <2>2, <1>9 DEF Remembers
    <2>5. Remembers(refused) /\ refused.pc # "complete"
      BY <2>2 DEF Remembers, WorkerState
    <2> HIDE DEF after, refused
    <2> QED BY SMTT(150), <2>1, <2>3, <2>4, <2>5, WorkerMoves
  <1>12. ASSUME NEW w \in Workers, CreateFails(w) PROVE Goal
    <2> DEFINE m == [worker[w] EXCEPT !.pc = "refuse"]
    <2>1. /\ m \in WorkerState /\ m.task = worker[w].task /\ m.pc = "refuse"
          /\ UNCHANGED <<task, attempt, created>>
          /\ worker' = [worker EXCEPT ![w] = m]
          /\ worker[w].pc = "create"
      BY ZenonT(150), <1>12 DEF CreateFails, WorkerState
    <2> HIDE DEF m
    <2> QED BY <1>8, <2>1
  <1>13. ASSUME NEW w \in Workers, MarkFailed(w) PROVE Goal
    <2> DEFINE m == worker[w]
               t == m.task
               r == Current(m)
               after == Continue(m, m.batch \ {r})
    <2>1. /\ m.pc = "refuse"
          /\ MarkMatches(w, t, r)
          /\ Mark(t, r, "failed")
          /\ Answer(w, after)
          /\ UNCHANGED <<task, created>>
      BY <1>13 DEF MarkFailed
    <2>2. t \in Tasks /\ m \in WorkerState
      BY <2>1 DEF WorkerMemory, Remembers
    <2>3. Outcomes' /\ \A s \in Tasks : PendingRows(s)' \subseteq PendingRows(s)
      BY <2>1, <2>2, OutcomeIsRecorded
    <2>4. Remembers(after) /\ after.pc # "complete"
      BY <2>2, <1>9 DEF Remembers
    <2> HIDE DEF after
    <2> QED BY <2>1, <2>3, <2>4, WorkerAnswered
  <1>14. ASSUME NEW w \in Workers, RefreshRead(w) PROVE Goal
    <2> DEFINE m == [worker[w] EXCEPT !.pc = "write",
                                      !.counts = CountsOf(attempt[worker[w].task])]
    <2>1. /\ m \in WorkerState /\ m.task = worker[w].task /\ m.pc = "write"
          /\ UNCHANGED <<task, attempt, created>>
          /\ worker' = [worker EXCEPT ![w] = m]
          /\ worker[w].pc = "refresh"
      BY ZenonT(150), <1>14, CountsAreTyped DEF RefreshRead, WorkerState
    <2> HIDE DEF m
    <2> QED BY ZenonT(150), <1>8, <2>1
  <1>15. ASSUME NEW w \in Workers, RefreshWrite(w) PROVE Goal
    <2> DEFINE m == worker[w]
               again == [m EXCEPT !.pc = "refresh", !.refreshes = 1]
               check == [m EXCEPT !.pc = "check", !.refreshes = 0]
    <2>1. /\ UNCHANGED <<attempt, created>>
          /\ m.pc = "write"
          /\ task' = [task EXCEPT ![m.task].counts = m.counts]
          /\ Answer(w, again) \/ Answer(w, check) \/ Answer(w, IdleWorker)
      BY <1>15 DEF RefreshWrite
    <2>2. \A s \in Tasks : task'[s].status = task[s].status
      BY <2>1 DEF TaskRow
    <2>3. m \in WorkerState /\ m.task \in Tasks
      BY <2>1 DEF WorkerMemory, Remembers
    <2>4. Remembers(again) /\ again.pc # "complete" /\ Remembers(check) /\ check.pc # "complete"
      BY <2>3 DEF Remembers, WorkerState
    <2>5. Remembers(IdleWorker) /\ IdleWorker.pc # "complete"
      BY WorkerGivesUp DEF IdleWorker
    <2> HIDE DEF again, check
    <2> QED BY <2>1, <2>2, <2>4, <2>5, StatusStays, WorkerAnswered
  <1>16. ASSUME NEW w \in Workers, CheckPending(w) PROVE Goal
    <2> DEFINE m == [worker[w] EXCEPT !.pc = "complete"]
    <2>1. /\ UNCHANGED <<task, attempt, created>>
          /\ worker[w].pc = "check"
          /\ \/ PendingRows(worker[w].task) = {} /\ worker' = [worker EXCEPT ![w] = m]
             \/ worker' = [worker EXCEPT ![w] = IdleWorker]
      BY <1>16 DEF CheckPending, NothingPending
    <2>2. m \in WorkerState /\ m.task = worker[w].task /\ m.pc = "complete"
      BY ZenonT(150) DEF WorkerState
    <2>3. Remembers(IdleWorker) /\ IdleWorker.pc # "complete"
      BY WorkerGivesUp DEF IdleWorker
    <2> HIDE DEF m
    <2>4. CASE PendingRows(worker[w].task) = {} /\ worker' = [worker EXCEPT ![w] = m]
      BY ZenonT(150), <1>8, <2>1, <2>2, <2>4
    <2>5. CASE worker' = [worker EXCEPT ![w] = IdleWorker]
      BY ZenonT(150), <2>1, <2>3, <2>5, StatusStays, WorkerMoves
    <2> QED BY <2>1, <2>4, <2>5
  <1>17. ASSUME NEW w \in Workers, Complete(w) PROVE Goal
    <2> DEFINE t == worker[w].task
               final == FinalStatus(worker[w].counts)
    <2>1. /\ UNCHANGED <<attempt, created>>
          /\ worker[w].pc = "complete"
          /\ Answer(w, IdleWorker)
          /\ \/ UNCHANGED task
             \/ /\ task[t].status = "running"
                /\ task' = [task EXCEPT ![t].status = final, ![t].owner = None,
                                        ![t].stale = FALSE]
      BY SMTT(150), <1>17 DEF Complete
    <2>2. t \in Tasks /\ PendingRows(t) = {}
      BY <2>1 DEF WorkerMemory, Remembers, NothingLeft
    <2>3. /\ \A s \in Tasks : s # t => task'[s] = task[s]
          /\ task'[t].status = task[t].status \/ task[t].status = "running"
      BY <2>1, <2>2
    <2>4. \A s \in Tasks : task[s].status = "cancelled" => task'[s].status = "cancelled"
      BY SMTT(150), <2>3
    <2>5. \A s \in Tasks : task'[s].status \in FinishedStatus \cup {"cancelled"} =>
              PendingRows(s) = {}
      BY <2>2, <2>3 DEF Outcomes, FinishedMeansProcessed
    <2>6. Remembers(IdleWorker) /\ IdleWorker.pc # "complete"
      BY WorkerGivesUp DEF IdleWorker
    <2>7. Outcomes' /\ \A s \in Tasks : PendingRows(s)' \subseteq PendingRows(s)
      BY <2>1, <2>4, <2>5, OutcomesStay
    <2> QED BY SMTT(150), <2>1, <2>6, <2>7, WorkerAnswered
  <1>18. CASE UNCHANGED vars
    BY <1>18, StatusStays, WorkersStay DEF vars
  <1>19. Goal
    BY <1>1, <1>2, <1>3, <1>4, <1>5, <1>6, <1>7, <1>10, <1>11, <1>12, <1>13,
       <1>14, <1>15, <1>16, <1>17, <1>18 DEF Next, WorkerStep
  <1> QED BY <1>0, <1>19

\* Types, workers' memory and outcomes are invariant together.
LEMMA OutcomesAgree == Spec => []ImportInv
  BY ImportInvIsInitial, ImportInvIsPreserved, PTL DEF Spec

\* However many workers fight over a task, it is finished or cancelled only
\* when no attempt of it is left to make.
THEOREM FinishedImportsAreProcessed == Spec => []FinishedMeansProcessed
  <1>1. ImportInv => FinishedMeansProcessed
    BY DEF ImportInv, Outcomes
  <1> QED BY <1>1, OutcomesAgree, PTL

\* Attempts and addresses agree, whichever worker was overtaken and whichever
\* reply was lost: a created address is never reported as a failure.
THEOREM AddressesMatchAttempts == Spec => []AddressesAreAccounted
  <1>1. ImportInv => AddressesAreAccounted
    BY DEF ImportInv, Outcomes
  <1> QED BY <1>1, OutcomesAgree, PTL

-----------------------------------------------------------------------------
(***************************************************************************)
(* The verdict of an import: why counts that were read two statements      *)
(* before a task is completed are still those of its attempts, as long as  *)
(* no worker was overtaken.                                                *)
(***************************************************************************)

\* Only its owner works on a task that was not overtaken, and only while it
\* is running or after it was cancelled.
SoleHolder ==
    \A w \in Workers, t \in Tasks :
        worker[w].task = t /\ ~overtaken[t] =>
            \/ task[t].status = "cancelled"
            \/ task[t].status = "running" /\ task[t].owner = w /\ ~task[t].stale

\* The counts a worker that was not overtaken has read are still those of the
\* attempts, and are those of the task once they are written.
CountsAreFresh ==
    \A w \in Workers, t \in Tasks :
        worker[w].task = t /\ ~overtaken[t] /\ task[t].status = "running" =>
            /\ worker[w].pc \in {"write", "check", "complete"} =>
                  worker[w].counts = CountsOf(attempt[t])
            /\ worker[w].pc \in {"check", "complete"} =>
                  task[t].counts = worker[w].counts

Verdicts == SoleHolder /\ CountsAreFresh /\ VerdictMatchesAttempts

VerdictInv == ImportInv /\ Verdicts

-----------------------------------------------------------------------------
\* Without pending or skipped attempts, only an import all of whose attempts
\* failed has failed.
LEMMA FailureIsTotal ==
    ASSUME NEW status \in [Rows -> AttemptStatus],
           \A r \in Rows : status[r] \notin {"pending", "skipped"},
           FinalStatus(CountsOf(status)) = "failed"
    PROVE  \A r \in Rows : status[r] = "failed"
  <1> DEFINE S == {r \in Rows : status[r] = "success"}
  <1>1. Cardinality(S) = 0
    BY DEF FinalStatus, CountsOf
  <1>2. IsFiniteSet(S)
    <2>1. S \in SUBSET Rows
      OBVIOUS
    <2> HIDE DEF S
    <2> QED BY <2>1, RowsAreFinite
  <1>3. S = {}
    BY <1>1, <1>2, FS_EmptySet
  <1> QED BY <1>3 DEF AttemptStatus

\* Two workers on one task that was not overtaken: it was cancelled.
LEMMA HoldersAreUnique ==
    ASSUME SoleHolder, NEW v \in Workers, NEW w \in Workers, v # w, NEW t \in Tasks,
           worker[v].task = t, worker[w].task = t, ~overtaken[t]
    PROVE  task[t].status = "cancelled"
  BY DEF SoleHolder

\* A step of one worker that changes the attempts and the counts of its own
\* task only, and that leaves the worker with fresh counts or with none.
LEMMA HolderMoves ==
    ASSUME VerdictInv, NEW w \in Workers, NEW m,
           worker' = [worker EXCEPT ![w] = m],
           m.task \in {None, worker[w].task},
           UNCHANGED overtaken,
           \A s \in Tasks : s # worker[w].task =>
               task'[s] = task[s] /\ attempt'[s] = attempt[s],
           \A s \in Tasks :
               /\ task'[s].status = task[s].status
               /\ task'[s].owner = task[s].owner
               /\ ~task[s].stale => ~task'[s].stale,
           \A t \in Tasks :
               worker[w].task = t /\ m.task = t /\ ~overtaken[t] /\ task[t].status = "running" =>
                 /\ m.pc \in {"write", "check", "complete"} => m.counts = CountsOf(attempt'[t])
                 /\ m.pc \in {"check", "complete"} => task'[t].counts = m.counts
    PROVE  Verdicts'
  <1>1. \A v \in Workers : worker'[v] = IF v = w THEN m ELSE worker[v]
    BY DEF VerdictInv, ImportInv, TypeOK
  <1>2. SoleHolder'
    <2> SUFFICES ASSUME NEW v \in Workers, NEW t \in Tasks,
                        worker'[v].task = t, ~overtaken[t]
                 PROVE  \/ task'[t].status = "cancelled"
                        \/ /\ task'[t].status = "running"
                           /\ task'[t].owner = v
                           /\ ~task'[t].stale
      BY DEF SoleHolder
    <2>1. worker[v].task = t
      BY <1>1, AddressImportAssumption
    <2>2. \/ task[t].status = "cancelled"
          \/ task[t].status = "running" /\ task[t].owner = v /\ ~task[t].stale
      BY SMTT(150), <2>1 DEF VerdictInv, Verdicts, SoleHolder
    <2> QED BY <2>2
  <1>3. CountsAreFresh'
    <2> SUFFICES ASSUME NEW v \in Workers, NEW t \in Tasks,
                        worker'[v].task = t, ~overtaken[t], task'[t].status = "running"
                 PROVE  /\ worker'[v].pc \in {"write", "check", "complete"} =>
                              worker'[v].counts = CountsOf(attempt'[t])
                        /\ worker'[v].pc \in {"check", "complete"} =>
                              task'[t].counts = worker'[v].counts
      BY DEF CountsAreFresh
    <2>1. worker[v].task = t /\ task[t].status = "running"
      BY SMTT(150), <1>1, AddressImportAssumption
    <2>2. CASE v = w
      BY <1>1, <2>1, <2>2
    <2>3. CASE v # w
      <3>1. worker[w].task # t
        BY <2>1, <2>3, HoldersAreUnique DEF VerdictInv, Verdicts
      <3>2. task'[t] = task[t] /\ attempt'[t] = attempt[t] /\ worker'[v] = worker[v]
        BY <1>1, <2>3, <3>1
      <3> QED BY <2>1, <3>2 DEF VerdictInv, Verdicts, CountsAreFresh
    <2> QED BY <2>2, <2>3
  <1>4. VerdictMatchesAttempts'
    <2> SUFFICES ASSUME NEW t \in Tasks, task'[t].status \in FinishedStatus, ~overtaken[t]
                 PROVE  /\ task'[t].counts = CountsOf(attempt'[t])
                        /\ task'[t].status = FinalStatus(CountsOf(attempt'[t]))
                        /\ task'[t].status = "failed" => \A r \in Rows : attempt'[t][r] = "failed"
      BY SMTT(150) DEF VerdictMatchesAttempts
    <2>1. task[t].status \in FinishedStatus
      OBVIOUS
    <2>2. worker[w].task # t
      BY <2>1 DEF VerdictInv, Verdicts, SoleHolder, FinishedStatus
    <2>3. task'[t] = task[t] /\ attempt'[t] = attempt[t]
      BY <2>2
    <2> QED BY <2>1, <2>3 DEF VerdictInv, Verdicts, VerdictMatchesAttempts
  <1> QED BY <1>2, <1>3, <1>4 DEF Verdicts

\* A worker that stops working on its task.
LEMMA HolderStops ==
    ASSUME VerdictInv, NEW w \in Workers, NEW m, m.task = None,
           worker' = [worker EXCEPT ![w] = m],
           UNCHANGED <<task, attempt, overtaken>>
    PROVE  Verdicts'
  <1>1. m.task \in {None, worker[w].task}
    OBVIOUS
  <1>2. \A t \in Tasks : m.task # t
    BY AddressImportAssumption
  <1> QED BY ZenonT(150), <1>1, <1>2, HolderMoves

LEMMA VerdictInvIsInitial == Init => VerdictInv
  <1> SUFFICES ASSUME Init PROVE VerdictInv
    OBVIOUS
  <1>1. SoleHolder /\ CountsAreFresh
    BY AddressImportAssumption DEF Init, IdleWorker, SoleHolder, CountsAreFresh
  <1>2. VerdictMatchesAttempts
    BY DEF Init, NoTask, VerdictMatchesAttempts, FinishedStatus
  <1> QED BY <1>1, <1>2, ImportInvIsInitial DEF VerdictInv, Verdicts

\* A task that nobody works on, or was overtaken, changes its status or its
\* lock, and is not finished.
LEMMA TaskMoves ==
    ASSUME VerdictInv, NEW t \in Tasks, UNCHANGED worker,
           \A s \in Tasks : s # t =>
               /\ task'[s] = task[s]
               /\ attempt'[s] = attempt[s]
               /\ overtaken'[s] = overtaken[s],
           task'[t].status \notin FinishedStatus,
           \/ task'[t].status = "cancelled"
           \/ overtaken'[t]
           \/ \A w \in Workers : worker[w].task # t
    PROVE  Verdicts'
  <1> USE DEF VerdictInv, Verdicts
  <1>1. SoleHolder'
    BY DEF SoleHolder
  <1>2. CountsAreFresh'
    BY DEF CountsAreFresh
  <1>3. VerdictMatchesAttempts'
    <2> SUFFICES ASSUME NEW s \in Tasks, task'[s].status \in FinishedStatus, ~overtaken'[s]
                 PROVE  /\ task'[s].counts = CountsOf(attempt'[s])
                        /\ task'[s].status = FinalStatus(CountsOf(attempt'[s]))
                        /\ task'[s].status = "failed" => \A r \in Rows : attempt'[s][r] = "failed"
      BY DEF VerdictMatchesAttempts
    <2>1. s # t
      OBVIOUS
    <2>2. task'[s] = task[s] /\ attempt'[s] = attempt[s] /\ ~overtaken[s]
      BY SMTT(150), <2>1
    <2> QED BY <2>2 DEF VerdictMatchesAttempts
  <1> QED BY <1>1, <1>2, <1>3

\* A worker that was not working claims a task.
LEMMA VerdictsAfterClaim ==
    ASSUME VerdictInv, NEW w \in Workers, ClaimTask(w)
    PROVE  Verdicts'
  <1> USE DEF VerdictInv, Verdicts
  <1>1. PICK t \in Claimable(w) :
           /\ task' = [task EXCEPT ![t].status = "running", ![t].owner = w,
                                   ![t].stale = FALSE]
           /\ Answer(w, [IdleWorker EXCEPT !.pc = "renew", !.task = t])
    BY ZenonT(150) DEF ClaimTask
  <1>2. t \in Tasks /\ task[t].status \in OpenStatus
    BY <1>1 DEF Claimable, Owns, OpenStatus
  <1>3. /\ \A s \in Tasks : s # t => task'[s] = task[s]
        /\ task'[t].status = "running" /\ task'[t].owner = w /\ ~task'[t].stale
    BY <1>1, <1>2 DEF ImportInv, TypeOK, TaskRow
  <1>4. UNCHANGED <<attempt, overtaken>> /\ worker[w].pc = "idle"
    BY DEF ClaimTask
  <1>5. /\ \A v \in Workers : v # w => worker'[v] = worker[v]
        /\ worker'[w].task \in {t, None}
        /\ worker'[w].pc \in {"renew", "idle"}
    <2> DEFINE m == [IdleWorker EXCEPT !.pc = "renew", !.task = t]
    <2>1. m.task = t /\ m.pc = "renew" /\ IdleWorker.task = None /\ IdleWorker.pc = "idle"
      BY DEF IdleWorker
    <2>2. \/ worker' = [worker EXCEPT ![w] = m]
          \/ worker' = [worker EXCEPT ![w] = IdleWorker]
      BY SMTT(150), <1>1 DEF Answer
    <2> HIDE DEF m
    <2> QED BY <2>1, <2>2 DEF ImportInv, TypeOK
  <1>6. ASSUME NEW v \in Workers, v # w, worker[v].task = t, ~overtaken[t] PROVE FALSE
    <2>1. task[t].status = "running" /\ task[t].owner = v /\ ~task[t].stale
      BY <1>2, <1>6 DEF SoleHolder, OpenStatus
    <2> QED BY <1>1, <1>6, <2>1 DEF Claimable, Owns
  <1>7. SoleHolder'
    <2> SUFFICES ASSUME NEW v \in Workers, NEW s \in Tasks,
                        worker'[v].task = s, ~overtaken[s]
                 PROVE  \/ task'[s].status = "cancelled"
                        \/ /\ task'[s].status = "running"
                           /\ task'[s].owner = v
                           /\ ~task'[s].stale
      BY <1>4 DEF SoleHolder
    <2>1. CASE v = w
      <3>1. s = t
        BY <1>5, <2>1, AddressImportAssumption
      <3> QED BY <1>3, <2>1, <3>1
    <2>2. CASE v # w
      <3>1. worker[v].task = s
        BY <1>5, <2>2
      <3>2. s # t
        BY <1>6, <2>2, <3>1
      <3> QED BY <1>3, <3>1, <3>2 DEF SoleHolder
    <2> QED BY <2>1, <2>2
  <1>8. CountsAreFresh'
    <2> SUFFICES ASSUME NEW v \in Workers, NEW s \in Tasks,
                        worker'[v].task = s, ~overtaken[s], task'[s].status = "running"
                 PROVE  /\ worker'[v].pc \in {"write", "check", "complete"} =>
                              worker'[v].counts = CountsOf(attempt'[s])
                        /\ worker'[v].pc \in {"check", "complete"} =>
                              task'[s].counts = worker'[v].counts
      BY <1>4 DEF CountsAreFresh
    <2>1. CASE v = w
      BY SMTT(150), <1>5, <2>1
    <2>2. CASE v # w
      <3>1. worker'[v] = worker[v]
        BY <1>5, <2>2
      <3>2. s # t
        BY SMTT(150), <1>6, <2>2, <3>1
      <3>3. task'[s] = task[s] /\ attempt'[s] = attempt[s]
        BY <1>3, <1>4, <3>2
      <3> QED BY <3>1, <3>3 DEF CountsAreFresh
    <2> QED BY SMTT(150), <2>1, <2>2
  <1>9. VerdictMatchesAttempts'
    <2> SUFFICES ASSUME NEW s \in Tasks, task'[s].status \in FinishedStatus, ~overtaken[s]
                 PROVE  /\ task'[s].counts = CountsOf(attempt'[s])
                        /\ task'[s].status = FinalStatus(CountsOf(attempt'[s]))
                        /\ task'[s].status = "failed" => \A r \in Rows : attempt'[s][r] = "failed"
      BY <1>4 DEF VerdictMatchesAttempts
    <2>1. s # t
      BY SMTT(150), <1>3 DEF FinishedStatus
    <2>2. task'[s] = task[s] /\ attempt'[s] = attempt[s]
      BY SMTT(150), <1>3, <1>4, <2>1
    <2> QED BY <2>2 DEF VerdictMatchesAttempts
  <1> QED BY SMTT(150), <1>7, <1>8, <1>9

\* The worker that completes a task computes its verdict from counts that are
\* still those of its attempts, and nobody else works on it.
LEMMA VerdictsAfterCompletion ==
    ASSUME VerdictInv, NEW w \in Workers, Complete(w)
    PROVE  Verdicts'
  <1> USE DEF VerdictInv, Verdicts
  <1> DEFINE t == worker[w].task
             final == FinalStatus(worker[w].counts)
  <1>1. /\ worker[w].pc = "complete"
        /\ worker' = [worker EXCEPT ![w] = IdleWorker]
        /\ UNCHANGED <<attempt, overtaken>>
    BY DEF Complete, Answer
  <1>2. t \in Tasks /\ PendingRows(t) = {}
    BY <1>1 DEF ImportInv, WorkerMemory, Remembers, NothingLeft
  <1>3. IdleWorker.task = None
    BY DEF IdleWorker
  <1>4. CASE task[t].status # "running"
    <2>1. UNCHANGED task
      BY SMTT(150), <1>4 DEF Complete
    <2> QED BY ZenonT(150), <1>1, <1>3, <2>1, HolderStops
  <1>5. CASE task[t].status = "running"
    <2>1. task' = [task EXCEPT ![t].status = final, ![t].owner = None, ![t].stale = FALSE]
      BY SMTT(150), <1>5 DEF Complete
    <2>2. /\ \A s \in Tasks : s # t => task'[s] = task[s]
          /\ task'[t].status = final /\ task'[t].counts = task[t].counts
      BY SMTT(150), <1>2, <2>1 DEF ImportInv, TypeOK, TaskRow
    <2>3. /\ \A v \in Workers : v # w => worker'[v] = worker[v]
          /\ worker'[w].task = None
      BY <1>1, <1>3 DEF ImportInv, TypeOK
    <2>4. ASSUME NEW v \in Workers, NEW s \in Tasks, worker'[v].task = s, ~overtaken[s]
          PROVE  v # w /\ worker[v].task = s /\ s # t
      <3>1. v # w /\ worker[v].task = s
        BY <2>3, <2>4, AddressImportAssumption
      <3> QED BY <1>5, <2>4, <3>1, HoldersAreUnique
    <2> HIDE DEF t
    <2>5. SoleHolder'
      <3> SUFFICES ASSUME NEW v \in Workers, NEW s \in Tasks,
                          worker'[v].task = s, ~overtaken[s]
                   PROVE  \/ task'[s].status = "cancelled"
                          \/ /\ task'[s].status = "running"
                             /\ task'[s].owner = v
                             /\ ~task'[s].stale
        BY SMTT(150), <1>1 DEF SoleHolder
      <3>1. worker[v].task = s /\ task'[s] = task[s]
        BY SMTT(150), <2>2, <2>4
      <3> QED BY <3>1 DEF SoleHolder
    <2>6. CountsAreFresh'
      <3> SUFFICES ASSUME NEW v \in Workers, NEW s \in Tasks,
                          worker'[v].task = s, ~overtaken[s], task'[s].status = "running"
                   PROVE  /\ worker'[v].pc \in {"write", "check", "complete"} =>
                                worker'[v].counts = CountsOf(attempt'[s])
                          /\ worker'[v].pc \in {"check", "complete"} =>
                                task'[s].counts = worker'[v].counts
        BY SMTT(150), <1>1 DEF CountsAreFresh
      <3>1. /\ worker[v].task = s /\ task'[s] = task[s]
            /\ worker'[v] = worker[v] /\ attempt'[s] = attempt[s]
        BY SMTT(150), <1>1, <2>2, <2>3, <2>4
      <3> QED BY <3>1 DEF CountsAreFresh
    <2>7. VerdictMatchesAttempts'
      <3> SUFFICES ASSUME NEW s \in Tasks, task'[s].status \in FinishedStatus, ~overtaken[s]
                   PROVE  /\ task'[s].counts = CountsOf(attempt'[s])
                          /\ task'[s].status = FinalStatus(CountsOf(attempt'[s]))
                          /\ task'[s].status = "failed" => \A r \in Rows : attempt'[s][r] = "failed"
        BY SMTT(150), <1>1 DEF VerdictMatchesAttempts
      <3>1. CASE s # t
        BY SMTT(150), <1>1, <2>2, <3>1 DEF VerdictMatchesAttempts
      <3>2. CASE s = t
        <4>1. worker[w].counts = CountsOf(attempt[t]) /\ task[t].counts = worker[w].counts
          BY SMTT(150), <1>1, <1>2, <1>5, <3>2 DEF CountsAreFresh, t
        <4>2. final = FinalStatus(CountsOf(attempt[t]))
          BY <4>1
        <4>3. attempt[t] \in [Rows -> AttemptStatus]
          BY <1>2 DEF ImportInv, TypeOK
        <4>4. \A r \in Rows : attempt[t][r] \notin {"pending", "skipped"}
          BY SMTT(150), <1>2, <1>5 DEF PendingRows, ImportInv, Outcomes, SkippedMeansCancelled
        <4>5. FinalStatus(CountsOf(attempt[t])) = "failed" =>
                 \A r \in Rows : attempt[t][r] = "failed"
          BY <4>3, <4>4, FailureIsTotal
        <4> QED BY <1>1, <2>2, <3>2, <4>1, <4>2, <4>5
      <3> QED BY <3>1, <3>2
    <2> QED BY SMTT(150), <2>5, <2>6, <2>7
  <1> QED BY SMTT(150), <1>4, <1>5

\* A worker that stops after it wrote the counts of its task.
LEMMA HolderReleases ==
    ASSUME VerdictInv, NEW w \in Workers,
           worker' = [worker EXCEPT ![w] = IdleWorker],
           UNCHANGED overtaken,
           \A s \in Tasks : s # worker[w].task =>
               task'[s] = task[s] /\ attempt'[s] = attempt[s],
           \A s \in Tasks :
               /\ task'[s].status = task[s].status
               /\ task'[s].owner = task[s].owner
               /\ ~task[s].stale => ~task'[s].stale
    PROVE  Verdicts'
  <1>1. IdleWorker.task \in {None, worker[w].task}
    BY DEF IdleWorker
  <1>2. \A t \in Tasks : IdleWorker.task # t
    BY AddressImportAssumption DEF IdleWorker
  <1> QED BY ZenonT(150), <1>1, <1>2, HolderMoves

\* An answered step of a worker on its own task.
LEMMA HolderAnswered ==
    ASSUME VerdictInv, NEW w \in Workers, NEW m, Answer(w, m),
           m.task = worker[w].task,
           UNCHANGED overtaken,
           \A s \in Tasks : s # worker[w].task =>
               task'[s] = task[s] /\ attempt'[s] = attempt[s],
           \A s \in Tasks :
               /\ task'[s].status = task[s].status
               /\ task'[s].owner = task[s].owner
               /\ ~task[s].stale => ~task'[s].stale,
           \A t \in Tasks :
               worker[w].task = t /\ m.task = t /\ ~overtaken[t] /\ task[t].status = "running" =>
                 /\ m.pc \in {"write", "check", "complete"} => m.counts = CountsOf(attempt'[t])
                 /\ m.pc \in {"check", "complete"} => task'[t].counts = m.counts
    PROVE  Verdicts'
  <1>1. CASE worker' = [worker EXCEPT ![w] = m]
    BY ZenonT(150), <1>1, HolderMoves
  <1>2. CASE worker' = [worker EXCEPT ![w] = IdleWorker]
    BY <1>2, HolderReleases
  <1> QED BY SMTT(150), <1>1, <1>2 DEF Answer

\* A mark that matches changes an attempt of the worker's own task only, and
\* the worker has no counts afterwards.
LEMMA VerdictsAfterMark ==
    ASSUME VerdictInv, NEW w \in Workers, worker[w].task \in Tasks, NEW r, NEW outcome,
           Mark(worker[w].task, r, outcome)
    PROVE  \A s \in Tasks : s # worker[w].task => attempt'[s] = attempt[s]
  BY DEF Mark, VerdictInv, ImportInv, TypeOK

LEMMA VerdictInvIsPreserved ==
    ASSUME VerdictInv, [Next]_vars
    PROVE  VerdictInv'
  <1> USE DEF VerdictInv
  <1>0. ImportInv'
    BY ImportInvIsPreserved
  <1>a. TypeOK
    BY DEF ImportInv
  <1>b. ASSUME NEW m \in WorkerState, NEW batch
        PROVE  /\ Continue(m, batch).task = m.task
               /\ Continue(m, batch).pc \in {"attempt", "refresh"}
    BY DEF Continue, WorkerState
  <1>c. IdleWorker.task = None /\ [IdleWorker EXCEPT !.pc = "dead"].task = None
    BY DEF IdleWorker
  <1>d. \A w \in Workers : worker[w] \in WorkerState
    BY <1>a DEF TypeOK
  <1>1. ASSUME NEW t \in Tasks, SubmitImport(t) PROVE Verdicts'
    <2>1. /\ UNCHANGED <<attempt, worker, overtaken>>
          /\ task[t].status = "absent"
          /\ task' = [task EXCEPT ![t].status = "pending"]
      BY <1>1 DEF SubmitImport
    <2>2. task'[t].status = "pending" /\ \A s \in Tasks : s # t => task'[s] = task[s]
      BY <1>a, <2>1 DEF TypeOK, TaskRow
    <2>3. overtaken'[t] \/ \A w \in Workers : worker[w].task # t
      BY <2>1 DEF Verdicts, SoleHolder
    <2> QED BY <2>1, <2>2, <2>3, TaskMoves DEF FinishedStatus
  <1>2. ASSUME NEW t \in Tasks, CancelImport(t) PROVE Verdicts'
    <2>1. /\ UNCHANGED <<worker, overtaken>>
          /\ task'[t].status = "cancelled"
          /\ \A s \in Tasks : s # t => task'[s] = task[s] /\ attempt'[s] = attempt[s]
      BY <1>a, <1>2 DEF CancelImport, TypeOK
    <2> QED BY <2>1, TaskMoves DEF FinishedStatus
  <1>3. ASSUME NEW t \in Tasks, AbandonedLockAges(t) \/ HeldLockAges(t) PROVE Verdicts'
    <2>1. /\ UNCHANGED <<attempt, worker>>
          /\ task[t].status = "running"
          /\ task' = [task EXCEPT ![t].stale = TRUE]
          /\ \/ ~Held(t) /\ UNCHANGED overtaken
             \/ overtaken' = [overtaken EXCEPT ![t] = TRUE]
      BY <1>3 DEF AbandonedLockAges, HeldLockAges, LockAges
    <2>2. task'[t].status = "running" /\ \A s \in Tasks : s # t => task'[s] = task[s]
      BY <1>a, <2>1 DEF TypeOK, TaskRow
    <2>3. /\ overtaken'[t] \/ \A w \in Workers : worker[w].task # t
          /\ \A s \in Tasks : s # t => overtaken'[s] = overtaken[s]
      BY SMTT(150), <1>a, <2>1 DEF Held, TypeOK
    <2> QED BY <2>1, <2>2, <2>3, TaskMoves DEF FinishedStatus
  <1>4. ASSUME NEW w \in Workers, RenewLock(w) PROVE Verdicts'
    <2> DEFINE t == worker[w].task
               m == [worker[w] EXCEPT !.pc = IF worker[w].pc = "renew" THEN "read"
                                             ELSE "create"]
    <2>1. /\ UNCHANGED <<attempt, overtaken>>
          /\ task' = [task EXCEPT ![t].stale = FALSE]
          /\ Answer(w, m)
      BY <1>4 DEF RenewLock
    <2>2. /\ \A s \in Tasks : s # t => task'[s] = task[s]
          /\ \A s \in Tasks : /\ task'[s].status = task[s].status
                              /\ task'[s].owner = task[s].owner
                              /\ ~task[s].stale => ~task'[s].stale
      BY <1>a, <2>1 DEF TypeOK, TaskRow
    <2>3. m.task = t /\ m.pc \in {"read", "create"}
      BY <1>d DEF WorkerState
    <2> HIDE DEF m
    <2> QED BY SMTT(150), <2>1, <2>2, <2>3, HolderAnswered
  <1>5. ASSUME NEW w \in Workers, RenewRefused(w) \/ MarkRefused(w) \/ StatementFails(w) \/ Crash(w)
        PROVE  Verdicts'
    <2>1. PICK m : /\ m.task = None
                   /\ worker' = [worker EXCEPT ![w] = m]
                   /\ UNCHANGED <<task, attempt, overtaken>>
      BY <1>c, <1>5 DEF RenewRefused, MarkRefused, StatementFails, Crash
    <2> QED BY <2>1, HolderStops
  <1>6. ASSUME NEW w \in Workers, ReadBatch(w) PROVE Verdicts'
    <2>1. PICK batch : /\ worker' = [worker EXCEPT ![w] = Continue(worker[w], batch)]
                       /\ UNCHANGED <<task, attempt, overtaken>>
      BY <1>6 DEF ReadBatch
    <2>2. /\ Continue(worker[w], batch).task = worker[w].task
          /\ Continue(worker[w], batch).pc \in {"attempt", "refresh"}
      BY <1>b, <1>d
    <2> QED BY ZenonT(150), <2>1, <2>2, HolderMoves
  <1>7. ASSUME NEW w \in Workers, CreateAddress(w) PROVE Verdicts'
    <2> DEFINE t == worker[w].task
               r == Current(worker[w])
               after == Continue(worker[w], worker[w].batch \ {r})
               refused == [worker[w] EXCEPT !.pc = "refuse"]
    <2>1. /\ worker[w].pc = "create"
          /\ Mark(t, r, "success")
          /\ UNCHANGED <<task, overtaken>>
          /\ \/ worker' = [worker EXCEPT ![w] = after]
             \/ worker' = [worker EXCEPT ![w] = refused]
      BY SMTT(150), <1>7 DEF CreateAddress
    <2>2. t \in Tasks
      BY <2>1 DEF ImportInv, WorkerMemory, Remembers
    <2>3. \A s \in Tasks : s # t => attempt'[s] = attempt[s]
      BY <2>1, <2>2, VerdictsAfterMark
    <2>4. after.task = t /\ after.pc \in {"attempt", "refresh"}
      BY <1>b, <1>d
    <2>5. refused.task = t /\ refused.pc = "refuse"
      BY <1>d DEF WorkerState
    <2> HIDE DEF after, refused
    <2> QED BY SMTT(150), <2>1, <2>3, <2>4, <2>5, HolderMoves
  <1>8. ASSUME NEW w \in Workers, CreateFails(w) PROVE Verdicts'
    <2> DEFINE m == [worker[w] EXCEPT !.pc = "refuse"]
    <2>1. UNCHANGED <<task, attempt, overtaken>> /\ worker' = [worker EXCEPT ![w] = m]
      BY <1>8 DEF CreateFails
    <2>2. m.task = worker[w].task /\ m.pc = "refuse"
      BY <1>d DEF WorkerState
    <2> HIDE DEF m
    <2> QED BY <2>1, <2>2, HolderMoves
  <1>9. ASSUME NEW w \in Workers, MarkFailed(w) PROVE Verdicts'
    <2> DEFINE t == worker[w].task
               r == Current(worker[w])
               after == Continue(worker[w], worker[w].batch \ {r})
    <2>1. /\ worker[w].pc = "refuse"
          /\ Mark(t, r, "failed")
          /\ UNCHANGED <<task, overtaken>>
          /\ Answer(w, after)
      BY <1>9 DEF MarkFailed
    <2>2. t \in Tasks
      BY <2>1 DEF ImportInv, WorkerMemory, Remembers
    <2>3. \A s \in Tasks : s # t => attempt'[s] = attempt[s]
      BY <2>1, <2>2, VerdictsAfterMark
    <2>4. after.task = t /\ after.pc \in {"attempt", "refresh"}
      BY <1>b, <1>d
    <2> HIDE DEF after
    <2> QED BY <2>1, <2>3, <2>4, HolderAnswered
  <1>10. ASSUME NEW w \in Workers, RefreshRead(w) PROVE Verdicts'
    <2> DEFINE t == worker[w].task
               m == [worker[w] EXCEPT !.pc = "write", !.counts = CountsOf(attempt[t])]
    <2>1. UNCHANGED <<task, attempt, overtaken>> /\ worker' = [worker EXCEPT ![w] = m]
      BY <1>10 DEF RefreshRead
    <2>2. m.task = t /\ m.pc = "write" /\ m.counts = CountsOf(attempt[t])
      BY <1>d DEF WorkerState
    <2> HIDE DEF m
    <2> QED BY ZenonT(150), <2>1, <2>2, HolderMoves
  <1>11. ASSUME NEW w \in Workers, RefreshWrite(w) PROVE Verdicts'
    <2> DEFINE t == worker[w].task
               again == [worker[w] EXCEPT !.pc = "refresh", !.refreshes = 1]
               check == [worker[w] EXCEPT !.pc = "check", !.refreshes = 0]
    <2>1. /\ UNCHANGED <<attempt, overtaken>>
          /\ worker[w].pc = "write"
          /\ task' = [task EXCEPT ![t].counts = worker[w].counts]
          /\ \/ Answer(w, again) \/ Answer(w, check)
             \/ worker' = [worker EXCEPT ![w] = IdleWorker]
      BY <1>11 DEF RefreshWrite, Answer
    <2>2. t \in Tasks
      BY SMTT(150), <2>1 DEF ImportInv, WorkerMemory, Remembers
    <2>3. /\ \A s \in Tasks : s # t => task'[s] = task[s]
          /\ \A s \in Tasks : /\ task'[s].status = task[s].status
                              /\ task'[s].owner = task[s].owner
                              /\ ~task[s].stale => ~task'[s].stale
          /\ task'[t].counts = worker[w].counts
      BY SMTT(150), <1>a, <2>1, <2>2 DEF TypeOK, TaskRow
    <2>4. /\ again.task = t /\ again.pc = "refresh"
          /\ check.task = t /\ check.pc = "check" /\ check.counts = worker[w].counts
      BY SMTT(150), <1>d DEF WorkerState
    <2>5. ~overtaken[t] /\ task[t].status = "running" =>
             worker[w].counts = CountsOf(attempt[t])
      BY SMTT(150), <2>1, <2>2 DEF Verdicts, CountsAreFresh
    <2> HIDE DEF again, check
    <2>7. CASE Answer(w, again)
      BY SMTT(150), <2>1, <2>3, <2>4, <2>7, HolderAnswered
    <2>8. CASE Answer(w, check)
      BY SMTT(150), <2>1, <2>3, <2>4, <2>5, <2>8, HolderAnswered
    <2>6. CASE worker' = [worker EXCEPT ![w] = IdleWorker]
      BY <2>1, <2>3, <2>6, HolderReleases
    <2> QED BY SMTT(150), <2>1, <2>6, <2>7, <2>8
  <1>12. ASSUME NEW w \in Workers, CheckPending(w) PROVE Verdicts'
    <2> DEFINE t == worker[w].task
               m == [worker[w] EXCEPT !.pc = "complete"]
    <2>1. /\ UNCHANGED <<task, attempt, overtaken>>
          /\ worker[w].pc = "check"
          /\ \/ worker' = [worker EXCEPT ![w] = m]
             \/ worker' = [worker EXCEPT ![w] = IdleWorker]
      BY <1>12 DEF CheckPending
    <2>2. m.task = t /\ m.pc = "complete" /\ m.counts = worker[w].counts
      BY <1>d DEF WorkerState
    <2>3. t \in Tasks /\ ~overtaken[t] /\ task[t].status = "running" =>
             worker[w].counts = CountsOf(attempt[t]) /\ task[t].counts = worker[w].counts
      BY <2>1 DEF Verdicts, CountsAreFresh
    <2> HIDE DEF m
    <2>4. ASSUME worker' = [worker EXCEPT ![w] = m] PROVE Verdicts'
      <3>1. \A s \in Tasks :
              worker[w].task = s /\ m.task = s /\ ~overtaken[s] /\ task[s].status = "running" =>
                /\ m.pc \in {"write", "check", "complete"} => m.counts = CountsOf(attempt'[s])
                /\ m.pc \in {"check", "complete"} => task'[s].counts = m.counts
        BY <2>1, <2>2, <2>3
      <3>2. m.task \in {None, worker[w].task}
        BY <2>2
      <3> HIDE DEF VerdictInv
      <3> QED BY ZenonT(150), <2>1, <2>4, <3>1, <3>2, HolderMoves
    <2>5. ASSUME worker' = [worker EXCEPT ![w] = IdleWorker] PROVE Verdicts'
      BY <1>c, <2>1, <2>5, HolderStops
    <2> QED BY <2>1, <2>4, <2>5
  <1>13. ASSUME UNCHANGED vars PROVE Verdicts'
    BY <1>13 DEF vars, Verdicts, SoleHolder, CountsAreFresh, VerdictMatchesAttempts
  <1>14. Verdicts'
    BY <1>1, <1>2, <1>3, <1>4, <1>5, <1>6, <1>7, <1>8, <1>9, <1>10, <1>11, <1>12, <1>13,
       VerdictsAfterClaim, VerdictsAfterCompletion DEF Next, WorkerStep
  <1> QED BY <1>0, <1>14

\* The verdict and the counts of a finished import are those of its attempts,
\* unless a worker was overtaken: cancellations, crashes and lost replies
\* between the two refreshes and the completion do not matter.
THEOREM VerdictsAreRight == Spec => []VerdictMatchesAttempts
  <1>1. VerdictInv => VerdictMatchesAttempts
    BY DEF VerdictInv, Verdicts
  <1> QED BY <1>1, VerdictInvIsInitial, VerdictInvIsPreserved, PTL DEF Spec
=============================================================================
