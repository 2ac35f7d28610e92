----------------------- MODULE NotificationOutboxProofs -----------------------
(***************************************************************************)
(* Proofs about the notification outbox, for every number of notifiers,    *)
(* events and targets, every batch size, attempt limit and bound of        *)
(* faults.                                                                 *)
(*                                                                         *)
(* MemoryInv types the state and says what a notifier remembers at each    *)
(* point of its loop.  CountingInv relates the attempts of batches, outbox *)
(* rows and delivery rows with the messages sent; both hold whether or not *)
(* locks go stale under working notifiers.  PromptInv adds what is true    *)
(* only as long as they do not: a claimed row has one notifier, and the    *)
(* targets it has passed are settled.                                      *)
(***************************************************************************)
EXTENDS NotificationOutbox, FiniteSetTheorems, TLAPS

\* What a notifier remembers, by the point of its loop it has reached.
Remembers(m) ==
    /\ m.pc \in {"idle", "released"} => m.batch = EmptyBatch
    /\ m.pc \in {"idle", "released", "batch"} => m.item = None
    /\ m.pc \in {"target", "sending", "record", "mark"} =>
          m.item \in Events /\ m.batch[m.item] > 0
    /\ m.pc \in {"target", "sending", "record"} => m.target \in TargetIds
    /\ m.pc = "sending" => Targets[m.target] = "external"
    /\ m.pc = "record" => m.outcome \in {"sent", "permanent", "transient"}
    /\ m.pc = "mark" => m.outcome \in {"ok", "error"}

NotifierMemory == \A n \in Notifiers : Remembers(notifier[n])

MemoryInv == TypeOK /\ NotifierMemory

-----------------------------------------------------------------------------
(* What the helpers return.                                                *)

LEMMA TargetIdsAreNumbers ==
    /\ Len(Targets) \in Nat
    /\ TargetIds = 1..Len(Targets)
    /\ \A t \in TargetIds : Targets[t] \in {"external", "in_app"}
  BY NotificationOutboxAssumption DEF TargetIds

LEMMA EmptyBatchIsABatch ==
    EmptyBatch \in [Events -> Nat] /\ \A e \in Events : EmptyBatch[e] = 0
  BY DEF EmptyBatch

LEMMA IdleNotifierRemembers ==
    IdleNotifier \in NotifierState /\ Remembers(IdleNotifier)
  BY TargetIdsAreNumbers, EmptyBatchIsABatch
     DEF IdleNotifier, NotifierState, Remembers

\* An item that fails is marked as an error, with the batch as it was.
LEMMA ItemFailsRemembers ==
    ASSUME NEW m \in NotifierState, m.item \in Events, m.batch[m.item] > 0
    PROVE  /\ ItemFails(m) \in NotifierState
           /\ Remembers(ItemFails(m))
           /\ ItemFails(m).pc = "mark"
           /\ ItemFails(m).outcome = "error"
           /\ ItemFails(m).batch = m.batch
           /\ ItemFails(m).item = m.item
  BY DEF ItemFails, NotifierState, Remembers

\* The next target exists, or the item was good to its end.
LEMMA NextTargetRemembers ==
    ASSUME NEW m \in NotifierState, m.item \in Events, m.batch[m.item] > 0
    PROVE  /\ NextTarget(m) \in NotifierState
           /\ Remembers(NextTarget(m))
           /\ NextTarget(m).batch = m.batch
           /\ NextTarget(m).item = m.item
           /\ \/ /\ m.target = Len(Targets)
                 /\ NextTarget(m).pc = "mark"
                 /\ NextTarget(m).outcome = "ok"
              \/ /\ m.target < Len(Targets)
                 /\ NextTarget(m).pc = "target"
                 /\ NextTarget(m).target = m.target + 1
  <1>1. m.target \in 0..Len(Targets)
    BY DEF NotifierState
  <1>2. CASE m.target = Len(Targets)
    <2>1. NextTarget(m) = [m EXCEPT !.pc = "mark", !.outcome = "ok"]
      BY <1>2 DEF NextTarget, NotifierState
    <2>2. NextTarget(m) \in NotifierState
      BY <2>1 DEF NotifierState
    <2>3. Remembers(NextTarget(m))
      BY <2>1 DEF NotifierState, Remembers
    <2>4. /\ NextTarget(m).batch = m.batch /\ NextTarget(m).item = m.item
          /\ NextTarget(m).pc = "mark" /\ NextTarget(m).outcome = "ok"
      BY <2>1 DEF NotifierState
    <2> QED BY <1>2, <2>2, <2>3, <2>4
  <1>3. CASE m.target # Len(Targets)
    <2>1. /\ m.target < Len(Targets) /\ m.target + 1 \in TargetIds
          /\ m.target + 1 \in 0..Len(Targets)
      BY <1>1, <1>3, TargetIdsAreNumbers
    <2>2. NextTarget(m) = [m EXCEPT !.pc = "target", !.target = m.target + 1,
                                    !.outcome = "none"]
      BY <1>3 DEF NextTarget, NotifierState
    <2>3. NextTarget(m) \in NotifierState
      BY <2>1, <2>2 DEF NotifierState
    <2>4. /\ NextTarget(m).batch = m.batch /\ NextTarget(m).item = m.item
          /\ NextTarget(m).pc = "target" /\ NextTarget(m).target = m.target + 1
      BY <2>2 DEF NotifierState
    <2>5. Remembers(NextTarget(m))
      BY <2>1, <2>4 DEF NotifierState, Remembers
    <2> QED BY <2>1, <2>3, <2>4, <2>5
  <1> QED BY <1>2, <1>3

\* One notifier replaced by a record that remembers what it should.
LEMMA OneNotifier ==
    ASSUME MemoryInv, NEW n \in Notifiers, NEW m \in NotifierState, Remembers(m),
           notifier' = [notifier EXCEPT ![n] = m]
    PROVE  notifier' \in [Notifiers -> NotifierState] /\ NotifierMemory'
  BY DEF MemoryInv, TypeOK, NotifierMemory

\* The item a notifier works on, and what it remembers of it.
LEMMA ItemOf ==
    ASSUME MemoryInv, NEW n \in Notifiers,
           notifier[n].pc \in {"target", "sending", "record", "mark"}
    PROVE  /\ notifier[n] \in NotifierState
           /\ notifier[n].item \in Events
           /\ notifier[n].batch[notifier[n].item] \in Nat \ {0}
           /\ notifier[n].pc # "mark" => notifier[n].target \in TargetIds
  BY DEF MemoryInv, TypeOK, NotifierMemory, Remembers, NotifierState

-----------------------------------------------------------------------------
(* TypeOK and NotifierMemory.                                              *)

LEMMA RowTypes ==
    /\ NoOutbox \in OutboxRow
    /\ NoDelivery \in DeliveryRow
    /\ [NoOutbox EXCEPT !.status = "deleted"] \in OutboxRow
  BY DEF NoOutbox, NoDelivery, OutboxRow, DeliveryRow, WaitingStatus, FinalStatus

LEMMA InitMemoryInv == Init => MemoryInv
  BY RowTypes, IdleNotifierRemembers, NotificationOutboxAssumption
     DEF Init, MemoryInv, TypeOK, NotifierMemory

\* A row of the outbox replaced by one of its type.
LEMMA OneOutboxRow ==
    ASSUME MemoryInv, NEW e \in Events, NEW row \in OutboxRow,
           outbox' = [outbox EXCEPT ![e] = row]
    PROVE  outbox' \in [Events -> OutboxRow]
  BY DEF MemoryInv, TypeOK

LEMMA OneDeliveryRow ==
    ASSUME MemoryInv, NEW e \in Events, NEW t \in TargetIds, NEW row \in DeliveryRow,
           delivery' = [delivery EXCEPT ![e][t] = row]
    PROVE  delivery' \in [Events -> [TargetIds -> DeliveryRow]]
  BY DEF MemoryInv, TypeOK

\* The environment and the release touch the outbox only, except that a
\* deletion takes the delivery rows along.
LEMMA EnvironmentRemembers ==
    ASSUME MemoryInv, NEW e \in Events,
           \/ InsertEvent(e) \/ DeleteEvent(e) \/ BackoffElapses(e)
           \/ ManualRetry(e) \/ AbandonedLockAges(e) \/ HeldLockAges(e)
    PROVE  MemoryInv'
  <1>1. outbox[e] \in OutboxRow
    BY DEF MemoryInv, TypeOK
  <1>2. notifier' = notifier /\ received' = received
    BY DEF InsertEvent, DeleteEvent, BackoffElapses, ManualRetry,
           AbandonedLockAges, HeldLockAges, LockAges
  <1>3. faults' \in 0..MaxFaults
    BY NotificationOutboxAssumption
       DEF MemoryInv, TypeOK, Fault, InsertEvent, DeleteEvent, BackoffElapses,
           ManualRetry, AbandonedLockAges, HeldLockAges
  <1>4. outbox' \in [Events -> OutboxRow]
    <2>1. CASE InsertEvent(e)
      BY <1>1, <2>1, ZenonT(60) DEF InsertEvent, MemoryInv, TypeOK, OutboxRow, WaitingStatus, FinalStatus
    <2>2. CASE DeleteEvent(e)
      BY <2>2, RowTypes DEF DeleteEvent, MemoryInv, TypeOK
    <2>3. CASE BackoffElapses(e)
      BY <1>1, <2>3 DEF BackoffElapses, MemoryInv, TypeOK, OutboxRow, WaitingStatus, FinalStatus
    <2>4. CASE ManualRetry(e)
      BY <1>1, <2>4 DEF ManualRetry, MemoryInv, TypeOK, OutboxRow, WaitingStatus, FinalStatus
    <2>5. CASE LockAges(e)
      BY <1>1, <2>5 DEF LockAges, MemoryInv, TypeOK, OutboxRow, WaitingStatus, FinalStatus
    <2> QED BY <2>1, <2>2, <2>3, <2>4, <2>5 DEF AbandonedLockAges, HeldLockAges
  <1>5. /\ delivery' \in [Events -> [TargetIds -> DeliveryRow]]
        /\ plain' \in [Events -> [TargetIds -> SUBSET PlainRow]]
    <2>1. CASE DeleteEvent(e)
      BY <2>1, RowTypes DEF DeleteEvent, MemoryInv, TypeOK
    <2>2. CASE delivery' = delivery /\ plain' = plain
      BY <2>2 DEF MemoryInv, TypeOK
    <2> QED BY <2>1, <2>2 DEF InsertEvent, BackoffElapses, ManualRetry,
                              AbandonedLockAges, HeldLockAges, LockAges
  <1> QED BY <1>2, <1>3, <1>4, <1>5 DEF MemoryInv, TypeOK, NotifierMemory

\* The three statements of a batch as a whole.
LEMMA ReleaseRemembers ==
    ASSUME MemoryInv, NEW n \in Notifiers, ReleaseStale(n)
    PROVE  MemoryInv'
  <1>1. \A row \in OutboxRow : Released(row) \in OutboxRow
    BY DEF Released, OutboxRow, WaitingStatus, FinalStatus
  <1>2. outbox' \in [Events -> OutboxRow]
    BY <1>1 DEF ReleaseStale, MemoryInv, TypeOK
  <1>3. [notifier[n] EXCEPT !.pc = "released"] \in NotifierState
    BY DEF MemoryInv, TypeOK, NotifierState
  <1>4. Remembers([notifier[n] EXCEPT !.pc = "released"])
    BY DEF MemoryInv, TypeOK, NotifierState, NotifierMemory, Remembers, ReleaseStale
  <1>5. notifier' = [notifier EXCEPT ![n] = [notifier[n] EXCEPT !.pc = "released"]]
    BY DEF ReleaseStale
  <1> QED BY <1>2, <1>3, <1>4, <1>5, OneNotifier DEF MemoryInv, TypeOK, ReleaseStale

\* A claim counts one more attempt of each row it takes.
LEMMA ClaimedRows ==
    ASSUME MemoryInv, NEW rows \in SUBSET DueEvents, ClaimRows(rows)
    PROVE  /\ outbox' \in [Events -> OutboxRow]
           /\ \A e \in Events :
                 \/ /\ e \in rows
                    /\ outbox[e].status \in WaitingStatus
                    /\ outbox'[e].status = "processing"
                    /\ outbox'[e].attempts = outbox[e].attempts + 1
                    /\ ~outbox'[e].stale
                 \/ e \notin rows /\ outbox'[e] = outbox[e]
  <1>1. \A k \in Nat : [status |-> "processing", attempts |-> k + 1,
                       due |-> FALSE, stale |-> FALSE] \in OutboxRow
    BY DEF OutboxRow
  <1>2. \A e \in Events : outbox[e] \in OutboxRow /\ outbox[e].attempts \in Nat
    BY DEF MemoryInv, TypeOK, OutboxRow
  <1>3. outbox' \in [Events -> OutboxRow]
    BY <1>1, <1>2 DEF ClaimRows
  <1> QED BY <1>2, <1>3 DEF ClaimRows, DueEvents

LEMMA ClaimRemembers ==
    ASSUME MemoryInv, NEW n \in Notifiers, Claim(n)
    PROVE  MemoryInv'
  <1>1. PICK rows \in SUBSET DueEvents :
          /\ ClaimRows(rows)
          /\ notifier' = [notifier EXCEPT
               ![n].pc = IF rows = {} THEN "idle" ELSE "batch",
               ![n].batch = [e \in Events |-> IF e \in rows THEN outbox'[e].attempts
                                                           ELSE 0]]
    BY DEF Claim
  <1>2. outbox' \in [Events -> OutboxRow]
    BY <1>1, ClaimedRows
  <1> DEFINE batch == [e \in Events |-> IF e \in rows THEN outbox'[e].attempts ELSE 0]
             m == [notifier[n] EXCEPT !.pc = IF rows = {} THEN "idle" ELSE "batch",
                                      !.batch = batch]
  <1>3. batch \in [Events -> Nat] /\ (rows = {} => batch = EmptyBatch)
    BY <1>2 DEF OutboxRow, EmptyBatch
  <1>4. notifier[n] \in NotifierState /\ notifier[n].item = None
    BY DEF Claim, MemoryInv, TypeOK, NotifierMemory, Remembers
  <1>5. notifier' = [notifier EXCEPT ![n] = m]
    BY <1>1
  <1> HIDE DEF batch
  <1>6. m \in NotifierState
    BY <1>3, <1>4 DEF NotifierState
  <1>7. Remembers(m)
    BY <1>3, <1>4 DEF NotifierState, Remembers
  <1> QED BY <1>2, <1>5, <1>6, <1>7, OneNotifier DEF MemoryInv, TypeOK, Claim

\* A step of an item ends in the record it asks for or in a failed item.
LEMMA ProceedRemembers ==
    ASSUME MemoryInv, NEW n \in Notifiers,
           notifier[n].pc \in {"target", "sending", "record"},
           NEW m \in NotifierState, Remembers(m), Proceed(n, m)
    PROVE  /\ notifier' \in [Notifiers -> NotifierState]
           /\ NotifierMemory'
           /\ \A k \in Notifiers \ {n} : notifier'[k] = notifier[k]
           /\ \/ notifier'[n] = m
              \/ notifier'[n] = ItemFails(notifier[n])
  <1>1. PICK next \in {m, ItemFails(notifier[n])} :
          notifier' = [notifier EXCEPT ![n] = next]
    BY DEF Proceed
  <1>2. next \in NotifierState /\ Remembers(next)
    BY ItemOf, ItemFailsRemembers
  <1>3. notifier \in [Notifiers -> NotifierState]
    BY DEF MemoryInv, TypeOK
  <1> QED BY <1>1, <1>2, <1>3, OneNotifier

LEMMA StartItemRemembers ==
    ASSUME MemoryInv, NEW n \in Notifiers, StartItem(n)
    PROVE  /\ MemoryInv'
           /\ \A k \in Notifiers \ {n} : notifier'[k] = notifier[k]
           /\ notifier'[n].batch = notifier[n].batch
           /\ \/ notifier'[n].pc = "target" /\ notifier'[n].target = 1
              \/ /\ notifier'[n].pc = "mark"
                 /\ notifier'[n].outcome = "ok" => TargetIds = {}
  <1>1. PICK e \in Events :
          LET m == [notifier[n] EXCEPT !.item = e, !.target = 0] IN
            /\ notifier[n].batch[e] > 0
            /\ \/ notifier' = [notifier EXCEPT ![n] = NextTarget(m)]
               \/ notifier' = [notifier EXCEPT ![n] = ItemFails(m)]
    BY DEF StartItem
  <1> DEFINE m == [notifier[n] EXCEPT !.item = e, !.target = 0]
  <1>2. /\ m \in NotifierState /\ m.item = e /\ m.target = 0
        /\ m.batch = notifier[n].batch /\ m.batch[m.item] > 0
    <2>1. 0 \in 0..Len(Targets) /\ notifier[n] \in NotifierState
      BY TargetIdsAreNumbers DEF MemoryInv, TypeOK
    <2> QED BY <1>1, <2>1 DEF NotifierState
  <1>3. \/ notifier' = [notifier EXCEPT ![n] = NextTarget(m)]
        \/ notifier' = [notifier EXCEPT ![n] = ItemFails(m)]
    BY <1>1
  <1>4. notifier \in [Notifiers -> NotifierState]
    BY DEF MemoryInv, TypeOK
  <1> HIDE DEF m
  <1>5. notifier' \in [Notifiers -> NotifierState] /\ NotifierMemory'
    BY <1>2, <1>3, NextTargetRemembers, ItemFailsRemembers, OneNotifier
  <1>6. MemoryInv'
    BY <1>5 DEF StartItem, MemoryInv, TypeOK
  <1>7. \/ notifier'[n] = NextTarget(m)
        \/ notifier'[n] = ItemFails(m)
    BY <1>3, <1>4
  <1>8. \A k \in Notifiers \ {n} : notifier'[k] = notifier[k]
    BY <1>3, <1>4
  <1>9. Len(Targets) = 0 => TargetIds = {}
    BY TargetIdsAreNumbers
  <1> QED BY <1>2, <1>6, <1>7, <1>8, <1>9, NextTargetRemembers, ItemFailsRemembers

LEMMA AddPlainRowRemembers ==
    ASSUME MemoryInv, NEW n \in Notifiers, notifier[n].pc = "target",
           NEW status \in {"sent", "skipped"}, AddPlainRow(n, status)
    PROVE  MemoryInv'
  <1> DEFINE e == notifier[n].item  t == notifier[n].target
  <1>1. NextTarget(notifier[n]) \in NotifierState /\ Remembers(NextTarget(notifier[n]))
    BY ItemOf, NextTargetRemembers
  <1>2. notifier' \in [Notifiers -> NotifierState] /\ NotifierMemory'
    BY <1>1, ProceedRemembers DEF AddPlainRow
  <1>3. plain' \in [Events -> [TargetIds -> SUBSET PlainRow]]
    <2>1. e \in Events /\ t \in TargetIds /\ <<status, Requested(n)>> \in PlainRow
      BY ItemOf DEF Requested, PlainRow
    <2>2. plain' = [plain EXCEPT ![e][t] = @ \cup {<<status, Requested(n)>>}]
      BY DEF AddPlainRow
    <2> QED BY <2>1, <2>2 DEF MemoryInv, TypeOK
  <1> QED BY <1>2, <1>3 DEF AddPlainRow, MemoryInv, TypeOK

LEMMA BeginExternalRemembers ==
    ASSUME MemoryInv, NEW n \in Notifiers, BeginExternal(n)
    PROVE  MemoryInv'
  <1> DEFINE e == notifier[n].item  t == notifier[n].target
             m == [notifier[n] EXCEPT !.pc = "sending"]
             row == [status |-> "processing", attempts |-> Requested(n),
                     transient |-> FALSE]
  <1>1. /\ notifier[n].pc = "target" /\ Targets[t] = "external"
        /\ e \in Events /\ t \in TargetIds /\ Requested(n) \in Nat \ {0}
    BY ItemOf DEF BeginExternal, AtTarget, Requested
  <1>2. NextTarget(notifier[n]) \in NotifierState /\ Remembers(NextTarget(notifier[n]))
    BY <1>1, ItemOf, NextTargetRemembers
  <1>3. m \in NotifierState /\ Remembers(m)
    BY <1>1, ItemOf DEF NotifierState, Remembers
  <1>4. Proceed(n, NextTarget(notifier[n])) \/ Proceed(n, m)
    BY DEF BeginExternal
  <1> HIDE DEF m
  <1>5. notifier' \in [Notifiers -> NotifierState] /\ NotifierMemory'
    BY <1>1, <1>2, <1>3, <1>4, ProceedRemembers
  <1>6. delivery' \in [Events -> [TargetIds -> DeliveryRow]]
    <2>1. row \in DeliveryRow
      BY <1>1 DEF DeliveryRow
    <2>2. UNCHANGED delivery \/ delivery' = [delivery EXCEPT ![e][t] = row]
      BY DEF BeginExternal
    <2> QED BY <1>1, <2>1, <2>2, OneDeliveryRow DEF MemoryInv, TypeOK
  <1> QED BY <1>5, <1>6 DEF BeginExternal, MemoryInv, TypeOK

LEMMA SendRemembers ==
    ASSUME MemoryInv, NEW n \in Notifiers, Send(n)
    PROVE  MemoryInv'
  <1> DEFINE e == notifier[n].item  t == notifier[n].target
  <1>1. PICK outcome \in {"sent", "permanent", "transient"} :
          notifier' = [notifier EXCEPT ![n].pc = "record", ![n].outcome = outcome]
    BY DEF Send
  <1> DEFINE m == [notifier[n] EXCEPT !.pc = "record", !.outcome = outcome]
  <1>2. notifier[n].pc = "sending" /\ e \in Events /\ t \in TargetIds
    BY ItemOf DEF Send, AtTarget
  <1>3. m \in NotifierState /\ Remembers(m)
    <2>1. /\ notifier[n] \in NotifierState
          /\ notifier[n].batch[e] > 0
      BY <1>2, ItemOf
    <2>2. /\ m.pc = "record" /\ m.outcome = outcome /\ m.item = e
          /\ m.batch = notifier[n].batch /\ m.target = t
      BY <2>1 DEF NotifierState
    <2>3. m \in NotifierState
      BY <2>1 DEF NotifierState
    <2> HIDE DEF m
    <2> QED BY <1>2, <2>1, <2>2, <2>3 DEF Remembers
  <1>4. notifier' = [notifier EXCEPT ![n] = m]
    BY <1>1
  <1> HIDE DEF m
  <1>5. notifier' \in [Notifiers -> NotifierState] /\ NotifierMemory'
    BY <1>3, <1>4, OneNotifier
  <1>6. received' \in [Events -> [TargetIds -> Nat]]
    <2>1. UNCHANGED received \/ received' = [received EXCEPT ![e][t] = @ + 1]
      BY DEF Send
    <2>2. received \in [Events -> [TargetIds -> Nat]]
      BY DEF MemoryInv, TypeOK
    <2>3. received[e] \in [TargetIds -> Nat] /\ received[e][t] + 1 \in Nat
      BY <1>2, <2>2
    <2>4. [received[e] EXCEPT ![t] = @ + 1] \in [TargetIds -> Nat]
      BY <1>2, <2>3
    <2> QED BY <1>2, <2>1, <2>2, <2>4
  <1> QED BY <1>5, <1>6 DEF Send, MemoryInv, TypeOK

LEMMA RecordOutcomeRemembers ==
    ASSUME MemoryInv, NEW n \in Notifiers, RecordOutcome(n)
    PROVE  MemoryInv'
  <1> DEFINE e == notifier[n].item  t == notifier[n].target
             outcome == notifier[n].outcome
             status == IF outcome = "sent" THEN "sent" ELSE "failed"
             row == [delivery[e][t] EXCEPT !.status = status,
                                           !.transient = (outcome = "transient")]
             m == IF ItemContinues(outcome) THEN NextTarget(notifier[n])
                  ELSE ItemFails(notifier[n])
  <1>1. notifier[n].pc = "record" /\ e \in Events /\ t \in TargetIds
    BY ItemOf DEF RecordOutcome, AtTarget
  <1>2. m \in NotifierState /\ Remembers(m)
    BY <1>1, ItemOf, NextTargetRemembers, ItemFailsRemembers
  <1>3. Proceed(n, m)
    BY DEF RecordOutcome
  <1>4. notifier' \in [Notifiers -> NotifierState] /\ NotifierMemory'
    <2> HIDE DEF m
    <2> QED BY <1>1, <1>2, <1>3, ProceedRemembers
  <1>5. delivery' \in [Events -> [TargetIds -> DeliveryRow]]
    <2>1. delivery[e][t] \in DeliveryRow
      BY <1>1 DEF MemoryInv, TypeOK
    <2>2. (outcome = "transient") \in BOOLEAN
      OBVIOUS
    <2>3. row \in DeliveryRow
      BY <2>1, <2>2 DEF DeliveryRow
    <2>4. delivery' = [delivery EXCEPT ![e][t] = row]
      BY <1>1 DEF RecordOutcome, MemoryInv, TypeOK
    <2> QED BY <1>1, <2>3, <2>4, OneDeliveryRow
  <1> QED BY <1>4, <1>5 DEF RecordOutcome, MemoryInv, TypeOK

LEMMA StatementFailsRemembers ==
    ASSUME MemoryInv, NEW n \in Notifiers, StatementFails(n)
    PROVE  MemoryInv'
  <1>1. /\ ItemFails(notifier[n]) \in NotifierState
        /\ Remembers(ItemFails(notifier[n]))
    BY ItemOf, ItemFailsRemembers DEF StatementFails
  <1>2. notifier' = [notifier EXCEPT ![n] = ItemFails(notifier[n])]
    BY DEF StatementFails, MemoryInv, TypeOK
  <1>3. notifier' \in [Notifiers -> NotifierState] /\ NotifierMemory'
    BY <1>1, <1>2, OneNotifier
  <1> QED BY <1>3 DEF StatementFails, MemoryInv, TypeOK

\* The batch without the item that was just marked.
Rest(n) == [notifier[n].batch EXCEPT ![notifier[n].item] = 0]

AfterItem(n) ==
    IF Rest(n) = EmptyBatch THEN IdleNotifier
    ELSE [IdleNotifier EXCEPT !.pc = "batch", !.batch = Rest(n)]

LEMMA AfterItemRemembers ==
    ASSUME MemoryInv, NEW n \in Notifiers, notifier[n].pc = "mark"
    PROVE  /\ AfterItem(n) \in NotifierState
           /\ Remembers(AfterItem(n))
           /\ AfterItem(n).item = None
           /\ AfterItem(n).batch = Rest(n)
           /\ AfterItem(n).pc \in {"idle", "batch"}
  <1>1. Rest(n) \in [Events -> Nat]
    BY ItemOf DEF Rest, NotifierState
  <1>2. IdleNotifier \in NotifierState /\ IdleNotifier.item = None
        /\ IdleNotifier.pc = "idle" /\ IdleNotifier.batch = EmptyBatch
    BY IdleNotifierRemembers DEF IdleNotifier
  <1>3. CASE Rest(n) = EmptyBatch
    BY <1>2, <1>3, IdleNotifierRemembers DEF AfterItem
  <1>4. CASE Rest(n) # EmptyBatch
    <2> DEFINE m == [IdleNotifier EXCEPT !.pc = "batch", !.batch = Rest(n)]
    <2>1. m \in NotifierState
      BY <1>1, <1>2 DEF NotifierState
    <2>2. m.pc = "batch" /\ m.item = None /\ m.batch = Rest(n)
      BY <1>2 DEF NotifierState
    <2>3. AfterItem(n) = m
      BY <1>4 DEF AfterItem
    <2> HIDE DEF m
    <2> QED BY <2>1, <2>2, <2>3 DEF Remembers
  <1> QED BY <1>3, <1>4

\* The update of an item at its end is that of one row that is processing.
LEMMA MarkUpdateRow ==
    ASSUME MemoryInv, NEW n \in Notifiers, notifier[n].pc = "mark", MarkUpdate(n)
    PROVE  LET e == notifier[n].item IN
           /\ e \in Events
           /\ outbox[e].status = "processing"
           /\ outbox' \in [Events -> OutboxRow]
           /\ \A f \in Events : f # e => outbox'[f] = outbox[f]
           /\ outbox'[e].attempts = outbox[e].attempts
           /\ \/ outbox'[e].status = "delivered" /\ notifier[n].outcome = "ok"
              \/ outbox'[e].status = "failed" /\ ShouldFail(Requested(n))
              \/ outbox'[e].status = "retryable"
  <1> DEFINE e == notifier[n].item
             status == IF notifier[n].outcome = "ok" THEN "delivered"
                       ELSE IF ShouldFail(Requested(n)) THEN "failed"
                       ELSE "retryable"
             row == [outbox[e] EXCEPT !.status = status, !.stale = FALSE]
  <1>1. e \in Events /\ outbox[e] \in OutboxRow
    BY ItemOf DEF MemoryInv, TypeOK
  <1>2. outbox' = [outbox EXCEPT ![e] = row]
    BY <1>1 DEF MarkUpdate, MemoryInv, TypeOK
  <1>3. row \in OutboxRow
    BY <1>1 DEF OutboxRow, WaitingStatus, FinalStatus
  <1>4. row.attempts = outbox[e].attempts /\ row.status = status
    BY <1>1 DEF OutboxRow
  <1>5. /\ outbox' \in [Events -> OutboxRow]
        /\ outbox'[e] = row
        /\ \A f \in Events : f # e => outbox'[f] = outbox[f]
    <2> HIDE DEF row
    <2> QED BY <1>1, <1>2, <1>3 DEF MemoryInv, TypeOK
  <1> HIDE DEF row
  <1> QED BY <1>1, <1>4, <1>5 DEF MarkUpdate

LEMMA MarkItemRemembers ==
    ASSUME MemoryInv, NEW n \in Notifiers, MarkItem(n)
    PROVE  /\ MemoryInv'
           /\ notifier' = [notifier EXCEPT ![n] = AfterItem(n)]
  <1>1. notifier' = [notifier EXCEPT ![n] = AfterItem(n)]
    BY DEF MarkItem, AfterItem, Rest
  <1>2. notifier' \in [Notifiers -> NotifierState] /\ NotifierMemory'
    BY <1>1, AfterItemRemembers, OneNotifier DEF MarkItem
  <1>3. outbox' \in [Events -> OutboxRow]
    BY MarkUpdateRow DEF MarkItem
  <1> QED BY <1>1, <1>2, <1>3 DEF MarkItem, MemoryInv, TypeOK

\* Every other end of a batch empties the notifier's memory.
StartsOver(n) == \/ ClaimReplyLost(n) \/ MarkMisses(n) \/ MarkFails(n) \/ Crash(n)

LEMMA StartsOverRemembers ==
    ASSUME MemoryInv, NEW n \in Notifiers, StartsOver(n)
    PROVE  MemoryInv' /\ notifier' = [notifier EXCEPT ![n] = IdleNotifier]
  <1>1. notifier' = [notifier EXCEPT ![n] = IdleNotifier]
    BY DEF StartsOver, ClaimReplyLost, MarkMisses, MarkFails, Crash
  <1>2. notifier' \in [Notifiers -> NotifierState] /\ NotifierMemory'
    BY <1>1, IdleNotifierRemembers, OneNotifier
  <1>3. outbox' \in [Events -> OutboxRow]
    <2>1. CASE ClaimReplyLost(n)
      BY <2>1, ClaimedRows DEF ClaimReplyLost
    <2>2. CASE MarkFails(n)
      BY <2>2, MarkUpdateRow DEF MarkFails, MemoryInv, TypeOK
    <2> QED BY <2>1, <2>2 DEF StartsOver, MarkMisses, Crash, MemoryInv, TypeOK
  <1>4. faults' \in 0..MaxFaults
    BY NotificationOutboxAssumption
       DEF StartsOver, ClaimReplyLost, MarkMisses, MarkFails, Crash, Fault,
           MemoryInv, TypeOK
  <1>5. UNCHANGED <<delivery, plain, received>>
    BY DEF StartsOver, ClaimReplyLost, MarkMisses, MarkFails, Crash
  <1> QED BY <1>1, <1>2, <1>3, <1>4, <1>5 DEF MemoryInv, TypeOK

\* The steps of the next-state relation, as the proofs split them.
Environment(e) ==
    \/ InsertEvent(e) \/ DeleteEvent(e) \/ BackoffElapses(e)
    \/ ManualRetry(e) \/ AbandonedLockAges(e) \/ HeldLockAges(e)

NotifierActs(n) ==
    \/ ReleaseStale(n) \/ Claim(n) \/ StartItem(n)
    \/ SkipTarget(n) \/ DeliverInApp(n)
    \/ BeginExternal(n) \/ Send(n) \/ RecordOutcome(n) \/ StatementFails(n)
    \/ MarkItem(n) \/ StartsOver(n)

LEMMA NextSplit ==
    ASSUME Next
    PROVE  \/ \E e \in Events : Environment(e)
           \/ \E n \in Notifiers : NotifierActs(n)
  BY DEF Next, NotifierStep, Environment, NotifierActs, StartsOver

\* The two rows without a key: skipped, or delivered in-app.
LEMMA PlainSteps ==
    ASSUME NEW n \in Notifiers, SkipTarget(n) \/ DeliverInApp(n)
    PROVE  /\ notifier[n].pc = "target"
           /\ \E status \in {"sent", "skipped"} : AddPlainRow(n, status)
  BY DEF SkipTarget, DeliverInApp, AtTarget

LEMMA NextMemoryInv == MemoryInv /\ [Next]_vars => MemoryInv'
  <1> SUFFICES ASSUME MemoryInv, [Next]_vars PROVE MemoryInv'
    OBVIOUS
  <1>1. CASE UNCHANGED vars
    BY <1>1 DEF vars, MemoryInv, TypeOK, NotifierMemory
  <1>2. ASSUME NEW e \in Events, Environment(e) PROVE MemoryInv'
    BY <1>2, EnvironmentRemembers DEF Environment
  <1>3. ASSUME NEW n \in Notifiers, NotifierActs(n) PROVE MemoryInv'
    <2>1. CASE SkipTarget(n) \/ DeliverInApp(n)
      BY <2>1, PlainSteps, AddPlainRowRemembers
    <2> QED BY <1>3, <2>1, ReleaseRemembers, ClaimRemembers, StartItemRemembers,
               BeginExternalRemembers, SendRemembers, RecordOutcomeRemembers,
               StatementFailsRemembers, MarkItemRemembers, StartsOverRemembers
            DEF NotifierActs
  <1> QED BY <1>1, <1>2, <1>3, NextSplit

\* Every row and every notifier's memory has its type in every behaviour:
\* the walk of notifier.rs never runs past the last target.
THEOREM OutboxTypes == Spec => []TypeOK
  <1>1. Spec => []MemoryInv
    BY InitMemoryInv, NextMemoryInv, PTL DEF Spec
  <1>2. MemoryInv => TypeOK
    BY DEF MemoryInv
  <1> QED BY <1>1, <1>2, PTL

-----------------------------------------------------------------------------
(* What a step does to the memory of its notifier and to the other state.  *)

\* The steps between the begin and the end of an item.
ItemStep(n) ==
    \/ SkipTarget(n) \/ DeliverInApp(n)
    \/ BeginExternal(n) \/ Send(n) \/ RecordOutcome(n) \/ StatementFails(n)

\* They keep the batch, the item and the outbox; only the begin of an external
\* target leads to a message being sent, and it has taken the delivery row.
LEMMA ItemStepShape ==
    ASSUME MemoryInv, NEW n \in Notifiers, ItemStep(n)
    PROVE  /\ UNCHANGED <<outbox, faults>>
           /\ \A k \in Notifiers \ {n} : notifier'[k] = notifier[k]
           /\ notifier'[n].batch = notifier[n].batch
           /\ notifier'[n].item = notifier[n].item
           /\ notifier[n].pc \in {"target", "sending", "record"}
           /\ \/ notifier'[n].pc = "mark" /\ notifier'[n].outcome = "error"
              \/ /\ notifier'[n] = NextTarget(notifier[n])
                 /\ SkipTarget(n) \/ DeliverInApp(n) \/ BeginExternal(n) \/ RecordOutcome(n)
              \/ /\ BeginExternal(n)
                 /\ notifier'[n].pc = "sending"
                 /\ notifier'[n].target = notifier[n].target
              \/ /\ Send(n)
                 /\ notifier'[n].pc = "record"
                 /\ notifier'[n].target = notifier[n].target
  <1> DEFINE Sending == [notifier[n] EXCEPT !.pc = "sending"]
  <1>1. notifier \in [Notifiers -> NotifierState] /\ notifier[n] \in NotifierState
    BY DEF MemoryInv, TypeOK
  <1>2. Sending.pc = "sending" /\ Sending.target = notifier[n].target
        /\ Sending.batch = notifier[n].batch /\ Sending.item = notifier[n].item
    BY <1>1 DEF NotifierState
  <1>3. UNCHANGED <<outbox, faults>>
    BY DEF ItemStep, SkipTarget, DeliverInApp, AddPlainRow, BeginExternal, Send,
           RecordOutcome, StatementFails
  <1>4. notifier[n].pc \in {"target", "sending", "record"}
    BY DEF ItemStep, SkipTarget, DeliverInApp, AtTarget, BeginExternal, Send,
           RecordOutcome, StatementFails
  <1>5. CASE Send(n)
    <2>1. PICK outcome \in {"sent", "permanent", "transient"} :
            notifier' = [notifier EXCEPT ![n].pc = "record", ![n].outcome = outcome]
      BY <1>5 DEF Send
    <2> DEFINE m == [notifier[n] EXCEPT !.pc = "record", !.outcome = outcome]
    <2>2. m.pc = "record" /\ m.target = notifier[n].target
          /\ m.batch = notifier[n].batch /\ m.item = notifier[n].item
      BY <1>1 DEF NotifierState
    <2>3. notifier' = [notifier EXCEPT ![n] = m]
      BY <2>1
    <2> HIDE DEF m
    <2> QED BY <1>1, <1>3, <1>4, <1>5, <2>2, <2>3
  <1>6. CASE StatementFails(n)
    <2>1. notifier' = [notifier EXCEPT ![n] = ItemFails(notifier[n])]
      BY <1>1, <1>6 DEF StatementFails
    <2> QED BY <1>1, <1>3, <1>4, <2>1, ItemOf, ItemFailsRemembers
  <1>7. CASE \/ SkipTarget(n) \/ DeliverInApp(n) \/ BeginExternal(n) \/ RecordOutcome(n)
    <2>1. \/ Proceed(n, NextTarget(notifier[n]))
          \/ Proceed(n, ItemFails(notifier[n]))
          \/ BeginExternal(n) /\ Proceed(n, Sending)
      BY <1>7 DEF SkipTarget, DeliverInApp, AddPlainRow, BeginExternal, RecordOutcome
    <2> HIDE DEF Sending
    <2>2. \/ notifier' = [notifier EXCEPT ![n] = NextTarget(notifier[n])]
          \/ notifier' = [notifier EXCEPT ![n] = ItemFails(notifier[n])]
          \/ BeginExternal(n) /\ notifier' = [notifier EXCEPT ![n] = Sending]
      BY <2>1 DEF Proceed
    <2>3. /\ ItemFails(notifier[n]).pc = "mark" /\ ItemFails(notifier[n]).outcome = "error"
          /\ ItemFails(notifier[n]).batch = notifier[n].batch
          /\ ItemFails(notifier[n]).item = notifier[n].item
          /\ NextTarget(notifier[n]).batch = notifier[n].batch
          /\ NextTarget(notifier[n]).item = notifier[n].item
      BY <1>4, ItemOf, NextTargetRemembers, ItemFailsRemembers
    <2>4. \/ notifier'[n] = NextTarget(notifier[n])
          \/ notifier'[n] = ItemFails(notifier[n])
          \/ BeginExternal(n) /\ notifier'[n] = Sending
      BY <1>1, <2>2
    <2>5. \A k \in Notifiers \ {n} : notifier'[k] = notifier[k]
      BY <1>1, <2>2
    <2> QED BY <1>2, <1>3, <1>4, <1>7, <2>3, <2>4, <2>5
  <1> QED BY <1>5, <1>6, <1>7 DEF ItemStep

LEMMA NotifierActsSplit ==
    ASSUME NEW n \in Notifiers, NotifierActs(n)
    PROVE  \/ ReleaseStale(n) \/ Claim(n) \/ StartItem(n) \/ ItemStep(n)
           \/ MarkItem(n) \/ StartsOver(n)
  BY DEF NotifierActs, ItemStep

-----------------------------------------------------------------------------
(* The attempts of batches and of outbox rows.                             *)

\* An attempt of an event is in one notifier's batch, and none is ahead of the
\* row's count.
AttemptsOfBatches ==
    \A n \in Notifiers, e \in Events :
        notifier[n].batch[e] > 0 =>
           /\ outbox[e].status # "deleted" =>
                 notifier[n].batch[e] <= outbox[e].attempts
           /\ \A k \in Notifiers \ {n} :
                 notifier[k].batch[e] # notifier[n].batch[e]

\* What a step may do to a row of the outbox.
OutboxRowStep(e) ==
    \/ outbox'[e] = outbox[e]
    \/ /\ outbox'[e].status = "deleted"
       /\ \A t \in TargetIds : delivery'[e][t] = NoDelivery
    \/ /\ outbox[e].status # "deleted"
       /\ outbox'[e].attempts = outbox[e].attempts
       /\ \/ outbox[e].status = "absent" /\ outbox'[e].status = "pending"
          \/ /\ outbox[e].status \in {"failed", "retryable", "processing"}
             /\ outbox'[e].status = "retryable"
          \/ outbox[e].status = "processing" /\ outbox'[e].status = "processing"
          \/ outbox[e].status = "processing" /\ outbox'[e].status = "delivered"
          \/ /\ outbox[e].status = "processing" /\ outbox'[e].status = "failed"
             /\ outbox[e].attempts >= MaxAttempts
    \/ /\ outbox[e].status \in WaitingStatus
       /\ outbox'[e].status = "processing"
       /\ outbox'[e].attempts = outbox[e].attempts + 1

LEMMA EnvironmentRows ==
    ASSUME MemoryInv, NEW f \in Events, Environment(f)
    PROVE  \A e \in Events : OutboxRowStep(e)
  <1>1. outbox \in [Events -> OutboxRow]
    BY DEF MemoryInv, TypeOK
  <1>2. \A e \in Events : e # f => outbox'[e] = outbox[e]
    BY <1>1 DEF Environment, InsertEvent, DeleteEvent, BackoffElapses, ManualRetry,
           AbandonedLockAges, HeldLockAges, LockAges
  <1>3. OutboxRowStep(f)
    <2>1. CASE InsertEvent(f)
      BY <1>1, <2>1 DEF InsertEvent, OutboxRow, OutboxRowStep
    <2>2. CASE DeleteEvent(f)
      <3>1. /\ outbox'[f].status = "deleted"
            /\ \A t \in TargetIds : delivery'[f][t] = NoDelivery
        BY <1>1, <2>2 DEF DeleteEvent, NoOutbox, MemoryInv, TypeOK
      <3> QED BY <3>1 DEF OutboxRowStep
    <2>3. CASE BackoffElapses(f)
      BY <1>1, <2>3 DEF BackoffElapses, OutboxRow, OutboxRowStep
    <2>4. CASE ManualRetry(f)
      BY <1>1, <2>4 DEF ManualRetry, OutboxRow, OutboxRowStep
    <2>5. CASE LockAges(f)
      BY <1>1, <2>5 DEF LockAges, OutboxRow, OutboxRowStep
    <2> QED BY <2>1, <2>2, <2>3, <2>4, <2>5
            DEF Environment, AbandonedLockAges, HeldLockAges
  <1> QED BY <1>2, <1>3 DEF OutboxRowStep

LEMMA MarkUpdateRows ==
    ASSUME MemoryInv, AttemptsOfBatches, NEW n \in Notifiers,
           notifier[n].pc = "mark", MarkUpdate(n)
    PROVE  \A e \in Events : OutboxRowStep(e)
  <1> DEFINE f == notifier[n].item
  <1>1. /\ f \in Events /\ outbox[f].status = "processing"
        /\ \A e \in Events : e # f => outbox'[e] = outbox[e]
        /\ outbox'[f].attempts = outbox[f].attempts
        /\ \/ outbox'[f].status = "delivered"
           \/ outbox'[f].status = "failed" /\ ShouldFail(Requested(n))
           \/ outbox'[f].status = "retryable"
    BY MarkUpdateRow
  <1>2. ShouldFail(Requested(n)) => outbox[f].attempts >= MaxAttempts
    <2>1. outbox[f].attempts \in Nat
      BY <1>1 DEF MemoryInv, TypeOK, OutboxRow
    <2>2. Requested(n) \in Nat \ {0} /\ Requested(n) = notifier[n].batch[f]
      BY ItemOf DEF Requested
    <2>3. Requested(n) <= outbox[f].attempts
      BY <1>1, <2>2 DEF AttemptsOfBatches
    <2> QED BY <2>1, <2>2, <2>3, NotificationOutboxAssumption DEF ShouldFail
  <1> HIDE DEF f
  <1> QED BY <1>1, <1>2 DEF OutboxRowStep

LEMMA NotifierRows ==
    ASSUME MemoryInv, AttemptsOfBatches, NEW n \in Notifiers, NotifierActs(n)
    PROVE  \A e \in Events : OutboxRowStep(e)
  <1>1. CASE UNCHANGED outbox
    BY <1>1 DEF OutboxRowStep
  <1>2. CASE ReleaseStale(n)
    <2>1. \A row \in OutboxRow : /\ Released(row).status = "retryable"
                                /\ Released(row).attempts = row.attempts
      BY DEF Released, OutboxRow
    <2> QED BY <1>2, <2>1 DEF ReleaseStale, Stuck, OutboxRowStep, MemoryInv, TypeOK
  <1>3. ASSUME NEW rows \in SUBSET DueEvents, ClaimRows(rows)
        PROVE  \A e \in Events : OutboxRowStep(e)
    BY <1>3, ClaimedRows DEF OutboxRowStep
  <1>4. CASE Claim(n) \/ ClaimReplyLost(n)
    BY <1>3, <1>4 DEF Claim, ClaimReplyLost
  <1>5. CASE notifier[n].pc = "mark" /\ MarkUpdate(n)
    BY <1>5, MarkUpdateRows
  <1> QED BY <1>1, <1>2, <1>4, <1>5, NotifierActsSplit, ItemStepShape
          DEF StartItem, StartsOver, MarkItem, MarkMisses, MarkFails, Crash

LEMMA RowSteps ==
    ASSUME MemoryInv, AttemptsOfBatches, [Next]_vars
    PROVE  \A e \in Events : OutboxRowStep(e)
  <1>1. CASE UNCHANGED vars
    BY <1>1 DEF vars, OutboxRowStep
  <1> QED BY <1>1, NextSplit, EnvironmentRows, NotifierRows

\* Nobody's batch changes but that of the notifier that acts, and except by a
\* claim it only loses items.
LEMMA BatchSteps ==
    ASSUME MemoryInv, NEW n \in Notifiers, NotifierActs(n), ~Claim(n)
    PROVE  /\ \A k \in Notifiers \ {n} : notifier'[k] = notifier[k]
           /\ \A e \in Events : notifier'[n].batch[e] \in {0, notifier[n].batch[e]}
  <1>1. notifier \in [Notifiers -> NotifierState]
    BY DEF MemoryInv, TypeOK
  <1>2. CASE ReleaseStale(n)
    BY <1>1, <1>2 DEF ReleaseStale, NotifierState
  <1>3. CASE StartItem(n)
    BY <1>3, StartItemRemembers
  <1>4. CASE ItemStep(n)
    BY <1>4, ItemStepShape
  <1>5. CASE MarkItem(n)
    <2>1. notifier' = [notifier EXCEPT ![n] = AfterItem(n)]
      BY <1>5, MarkItemRemembers
    <2>2. AfterItem(n).batch = Rest(n)
      BY <1>5, AfterItemRemembers DEF MarkItem
    <2>3. \A e \in Events : Rest(n)[e] \in {0, notifier[n].batch[e]}
      BY <1>1 DEF Rest, NotifierState
    <2> QED BY <1>1, <2>1, <2>2, <2>3
  <1>6. CASE StartsOver(n)
    <2>1. notifier' = [notifier EXCEPT ![n] = IdleNotifier]
      BY <1>6, StartsOverRemembers
    <2> QED BY <1>1, <2>1, EmptyBatchIsABatch DEF IdleNotifier
  <1> QED BY <1>2, <1>3, <1>4, <1>5, <1>6, NotifierActsSplit

\* A claim gives its notifier the new attempts of the rows it took.
LEMMA ClaimBatch ==
    ASSUME MemoryInv, NEW n \in Notifiers, Claim(n)
    PROVE  /\ UNCHANGED <<delivery, plain, received>>
           /\ notifier[n].batch = EmptyBatch
           /\ notifier'[n].item = None
           /\ \A k \in Notifiers \ {n} : notifier'[k] = notifier[k]
           /\ \A e \in Events :
                 \/ notifier'[n].batch[e] = 0 /\ outbox'[e] = outbox[e]
                 \/ /\ notifier'[n].batch[e] = outbox'[e].attempts
                    /\ outbox[e].status \in WaitingStatus
                    /\ outbox'[e].status = "processing"
                    /\ outbox'[e].attempts = outbox[e].attempts + 1
                    /\ ~outbox'[e].stale
  <1>1. PICK rows \in SUBSET DueEvents :
          /\ ClaimRows(rows)
          /\ notifier' = [notifier EXCEPT
               ![n].pc = IF rows = {} THEN "idle" ELSE "batch",
               ![n].batch = [e \in Events |-> IF e \in rows THEN outbox'[e].attempts
                                                           ELSE 0]]
    BY DEF Claim
  <1> DEFINE batch == [e \in Events |-> IF e \in rows THEN outbox'[e].attempts ELSE 0]
             m == [notifier[n] EXCEPT !.pc = IF rows = {} THEN "idle" ELSE "batch",
                                      !.batch = batch]
  <1>2. /\ notifier \in [Notifiers -> NotifierState]
        /\ notifier[n].item = None /\ notifier[n].batch = EmptyBatch
    BY DEF Claim, MemoryInv, TypeOK, NotifierMemory, Remembers
  <1>3. m.batch = batch /\ m.item = notifier[n].item
    BY <1>2 DEF NotifierState
  <1>4. notifier' = [notifier EXCEPT ![n] = m]
    BY <1>1
  <1>5. \A e \in Events : batch[e] = IF e \in rows THEN outbox'[e].attempts ELSE 0
    OBVIOUS
  <1> HIDE DEF m, batch
  <1>6. /\ notifier'[n] = m
        /\ \A k \in Notifiers \ {n} : notifier'[k] = notifier[k]
    BY <1>2, <1>4
  <1> QED BY <1>1, <1>2, <1>3, <1>5, <1>6, ClaimedRows DEF Claim

LEMMA AttemptsGrow ==
    ASSUME MemoryInv, NEW e \in Events, OutboxRowStep(e), outbox'[e].status # "deleted"
    PROVE  /\ outbox[e].status # "deleted"
           /\ outbox[e].attempts \in Nat
           /\ outbox'[e].attempts \in {outbox[e].attempts, outbox[e].attempts + 1}
  BY DEF OutboxRowStep, WaitingStatus, MemoryInv, TypeOK, OutboxRow

LEMMA NextAttemptsOfBatches ==
    ASSUME MemoryInv, AttemptsOfBatches, [Next]_vars
    PROVE  AttemptsOfBatches'
  <1>1. \A e \in Events : outbox'[e].status # "deleted" =>
           /\ outbox[e].status # "deleted"
           /\ outbox[e].attempts \in Nat
           /\ outbox'[e].attempts \in {outbox[e].attempts, outbox[e].attempts + 1}
    BY RowSteps, AttemptsGrow
  <1>2. \A k \in Notifiers, e \in Events : notifier[k].batch[e] \in Nat
    BY DEF MemoryInv, TypeOK, NotifierState
  <1>3. CASE \A k \in Notifiers, e \in Events :
                notifier'[k].batch[e] \in {0, notifier[k].batch[e]}
    BY <1>1, <1>2, <1>3 DEF AttemptsOfBatches
  <1>4. ASSUME NEW n \in Notifiers, Claim(n) PROVE AttemptsOfBatches'
    BY <1>1, <1>2, <1>4, ClaimBatch DEF AttemptsOfBatches, WaitingStatus
  <1>5. ASSUME NEW n \in Notifiers, NotifierActs(n), ~Claim(n)
        PROVE  AttemptsOfBatches'
    BY <1>2, <1>3, <1>5, BatchSteps
  <1>6. ASSUME NEW e \in Events, Environment(e) PROVE AttemptsOfBatches'
    <2>1. notifier' = notifier
      BY <1>6 DEF Environment, InsertEvent, DeleteEvent, BackoffElapses, ManualRetry,
                  AbandonedLockAges, HeldLockAges, LockAges
    <2> QED BY <1>3, <2>1
  <1>7. CASE UNCHANGED vars
    BY <1>3, <1>7 DEF vars
  <1> QED BY <1>4, <1>5, <1>6, <1>7, NextSplit

-----------------------------------------------------------------------------
(* The messages sent, the attempts of delivery rows, and given-up events.  *)

\* The notifiers that have taken over target t of event e and not yet had the
\* provider's answer.
Senders(e, t) ==
    {n \in Notifiers : /\ notifier[n].pc = "sending"
                       /\ notifier[n].item = e
                       /\ notifier[n].target = t}

\* Each attempt of a delivery row was, or will be, at most one message.
Counted(e, t) ==
    outbox[e].status # "deleted" =>
        /\ received[e][t] + Cardinality(Senders(e, t)) <= delivery[e][t].attempts
        /\ delivery[e][t].attempts <= outbox[e].attempts

MessagesAreCounted == \A e \in Events, t \in TargetIds : Counted(e, t)

DeliveryRows ==
    \A e \in Events, t \in TargetIds :
        /\ delivery[e][t].status = "absent" => delivery[e][t].attempts = 0
        /\ outbox[e].status = "deleted" => delivery[e][t].status = "absent"

GivenUpInTheEnd ==
    \A e \in Events : outbox[e].status = "failed" => outbox[e].attempts >= MaxAttempts

CountingInv ==
    /\ MemoryInv
    /\ AttemptsOfBatches
    /\ DeliveryRows
    /\ MessagesAreCounted
    /\ GivenUpInTheEnd

LEMMA SendersAreFinite ==
    \A e, t : IsFiniteSet(Senders(e, t)) /\ Cardinality(Senders(e, t)) \in Nat
  <1> TAKE e, t
  <1>1. Senders(e, t) \in SUBSET Notifiers
    BY DEF Senders
  <1>2. IsFiniteSet(Senders(e, t))
    BY <1>1, FS_Subset, NotificationOutboxAssumption
  <1> QED BY <1>2, FS_CardinalityType

\* What one notifier's step does to the number of senders.
LEMMA SendersStep ==
    ASSUME NEW n \in Notifiers, NEW e, NEW t,
           \A k \in Notifiers \ {n} : notifier'[k] = notifier[k]
    PROVE  /\ Cardinality(Senders(e, t))' \in Nat
           /\ Cardinality(Senders(e, t))' <= Cardinality(Senders(e, t)) + 1
           /\ n \notin Senders(e, t)' =>
                 Cardinality(Senders(e, t))' =
                    IF n \in Senders(e, t) THEN Cardinality(Senders(e, t)) - 1
                    ELSE Cardinality(Senders(e, t))
  <1> DEFINE old == Senders(e, t)
  <1>1. IsFiniteSet(old) /\ Cardinality(old) \in Nat
    BY SendersAreFinite
  <1>2. CASE n \in Senders(e, t)'
    <2>1. Senders(e, t)' = old \cup {n}
      BY <1>2 DEF Senders
    <2> QED BY <1>1, <1>2, <2>1, FS_AddElement
  <1>3. CASE n \notin Senders(e, t)'
    <2>1. Senders(e, t)' = old \ {n}
      BY <1>3 DEF Senders
    <2>2. Cardinality(old \ {n}) = IF n \in old THEN Cardinality(old) - 1
                                   ELSE Cardinality(old)
      BY <1>1, FS_RemoveElement
    <2>3. Cardinality(old \ {n}) \in Nat
      BY <1>1, FS_RemoveElement, FS_CardinalityType
    <2> QED BY <1>1, <1>3, <2>1, <2>2, <2>3
  <1> QED BY <1>2, <1>3

LEMMA InitCountingInv == Init => CountingInv
  <1> SUFFICES ASSUME Init PROVE CountingInv
    OBVIOUS
  <1>1. \A n \in Notifiers : notifier[n] = IdleNotifier
    BY DEF Init
  <1>2. \A e, t : Senders(e, t) = {}
    BY <1>1 DEF Senders, IdleNotifier
  <1>3. MessagesAreCounted
    <2> SUFFICES ASSUME NEW e \in Events, NEW t \in TargetIds
                 PROVE  /\ received[e][t] + Cardinality(Senders(e, t)) <= delivery[e][t].attempts
                        /\ delivery[e][t].attempts <= outbox[e].attempts
      BY DEF MessagesAreCounted, Counted
    <2>1. Cardinality(Senders(e, t)) = 0
      BY <1>2, FS_EmptySet
    <2>2. received[e][t] = 0 /\ delivery[e][t].attempts = 0 /\ outbox[e].attempts = 0
      BY DEF Init, NoDelivery, NoOutbox
    <2> QED BY <2>1, <2>2
  <1>4. AttemptsOfBatches
    BY <1>1, EmptyBatchIsABatch DEF AttemptsOfBatches, IdleNotifier
  <1>5. DeliveryRows /\ GivenUpInTheEnd
    BY DEF Init, DeliveryRows, GivenUpInTheEnd, NoDelivery, NoOutbox
  <1> QED BY <1>3, <1>4, <1>5, InitMemoryInv DEF CountingInv

\* The types of what is counted.
LEMMA CountTypes ==
    ASSUME MemoryInv, NEW e \in Events, NEW t \in TargetIds
    PROVE  /\ received[e][t] \in Nat
           /\ delivery[e][t] \in DeliveryRow
           /\ delivery[e][t].attempts \in Nat
           /\ outbox[e].attempts \in Nat
  BY DEF MemoryInv, TypeOK, DeliveryRow, OutboxRow

\* A step of n that neither sends to nor takes over a target keeps its count.
LEMMA QuietTarget ==
    ASSUME CountingInv, [Next]_vars, NEW e \in Events, NEW t \in TargetIds,
           received'[e][t] = received[e][t],
           delivery'[e][t].attempts = delivery[e][t].attempts,
           \/ notifier' = notifier
           \/ \E n \in Notifiers :
                 /\ \A k \in Notifiers \ {n} : notifier'[k] = notifier[k]
                 /\ n \notin Senders(e, t)'
    PROVE  Counted(e, t)'
  <1>1. /\ Cardinality(Senders(e, t)) \in Nat
        /\ Cardinality(Senders(e, t))' \in Nat
        /\ Cardinality(Senders(e, t))' <= Cardinality(Senders(e, t))
    <2>1. Cardinality(Senders(e, t)) \in Nat
      BY SendersAreFinite
    <2>2. CASE notifier' = notifier
      <3>1. Senders(e, t)' = Senders(e, t)
        BY <2>2 DEF Senders
      <3> QED BY <2>1, <3>1
    <2>3. CASE \E n \in Notifiers :
                 /\ \A k \in Notifiers \ {n} : notifier'[k] = notifier[k]
                 /\ n \notin Senders(e, t)'
      BY <2>1, <2>3, SendersStep
    <2> QED BY <2>1, <2>2, <2>3
  <1>2. outbox'[e].status # "deleted" =>
           /\ outbox[e].status # "deleted"
           /\ outbox'[e].attempts \in {outbox[e].attempts, outbox[e].attempts + 1}
    BY RowSteps, AttemptsGrow DEF CountingInv
  <1>3. Counted(e, t)
    BY DEF CountingInv, MessagesAreCounted
  <1> QED BY <1>1, <1>2, <1>3, CountTypes DEF CountingInv, Counted

\* The two outcomes of beginning an external target.
LEMMA BeginShape ==
    ASSUME MemoryInv, NEW n \in Notifiers, BeginExternal(n)
    PROVE  LET e == notifier[n].item  t == notifier[n].target IN
           /\ e \in Events /\ t \in TargetIds /\ notifier[n].pc = "target"
           /\ outbox[e].status # "deleted"
           /\ notifier[n].batch[e] \in Nat \ {0}
           /\ UNCHANGED <<plain, received>>
           /\ \A f \in Events, u \in TargetIds :
                 f # e \/ u # t => delivery'[f][u] = delivery[f][u]
           /\ \/ /\ UNCHANGED delivery /\ notifier'[n].pc # "sending"
                 /\ \/ delivery[e][t].status = "sent"
                    \/ /\ delivery[e][t].status # "absent"
                       /\ delivery[e][t].attempts >= notifier[n].batch[e]
              \/ /\ delivery'[e][t].status = "processing"
                 /\ delivery'[e][t].attempts = notifier[n].batch[e]
                 /\ \/ notifier'[n].pc = "sending"
                    \/ notifier'[n].pc = "mark" /\ notifier'[n].outcome = "error"
                 /\ \/ delivery[e][t].status = "absent"
                    \/ /\ delivery[e][t].status # "sent"
                       /\ ~(delivery[e][t].attempts >= notifier[n].batch[e])
  <1> DEFINE e == notifier[n].item  t == notifier[n].target
             row == [status |-> "processing", attempts |-> Requested(n),
                     transient |-> FALSE]
  <1>1. /\ e \in Events /\ t \in TargetIds /\ notifier[n].pc = "target"
        /\ outbox[e].status # "deleted"
        /\ Requested(n) = notifier[n].batch[e] /\ Requested(n) \in Nat \ {0}
        /\ UNCHANGED <<plain, received>>
    BY ItemOf DEF BeginExternal, AtTarget, EventExists, Requested
  <1>2. CASE /\ delivery[e][t].status # "absent"
             /\ AlreadyComplete(delivery[e][t], Requested(n))
             /\ Proceed(n, NextTarget(notifier[n]))
             /\ UNCHANGED delivery
    <2>1. \/ notifier'[n] = NextTarget(notifier[n])
          \/ notifier'[n] = ItemFails(notifier[n])
      BY <1>2 DEF Proceed, MemoryInv, TypeOK
    <2>2. /\ NextTarget(notifier[n]).pc # "sending"
          /\ ItemFails(notifier[n]).pc # "sending"
      BY <1>1, ItemOf, ItemFailsRemembers, NextTargetRemembers
    <2> QED BY <1>1, <1>2, <2>1, <2>2 DEF AlreadyComplete
  <1>3. CASE /\ \/ delivery[e][t].status = "absent"
                \/ ~AlreadyComplete(delivery[e][t], Requested(n))
             /\ Proceed(n, [notifier[n] EXCEPT !.pc = "sending"])
             /\ delivery' = [delivery EXCEPT ![e][t] = row]
    <2>3. \/ notifier'[n].pc = "sending"
          \/ notifier'[n].pc = "mark" /\ notifier'[n].outcome = "error"
      <3> DEFINE m == [notifier[n] EXCEPT !.pc = "sending"]
      <3>1. notifier'[n] = m \/ notifier'[n] = ItemFails(notifier[n])
        BY <1>3 DEF Proceed, MemoryInv, TypeOK
      <3>2. m.pc = "sending"
        BY DEF MemoryInv, TypeOK, NotifierState
      <3> HIDE DEF m
      <3> QED BY <1>1, <3>1, <3>2, ItemOf, ItemFailsRemembers
    <2>1. row \in DeliveryRow /\ row.status = "processing" /\ row.attempts = Requested(n)
      BY <1>1 DEF DeliveryRow
    <2>2. /\ delivery'[e][t] = row
          /\ \A f \in Events, u \in TargetIds :
                f # e \/ u # t => delivery'[f][u] = delivery[f][u]
      <3> HIDE DEF e, t, row
      <3> QED BY <1>1, <1>3 DEF MemoryInv, TypeOK
    <2> QED BY <1>1, <1>3, <2>1, <2>2, <2>3 DEF AlreadyComplete
  <1> QED BY <1>2, <1>3 DEF BeginExternal

\* The outcome is recorded in a row that is still this attempt's.
LEMMA RecordShape ==
    ASSUME MemoryInv, NEW n \in Notifiers, RecordOutcome(n)
    PROVE  LET e == notifier[n].item  t == notifier[n].target IN
           /\ e \in Events /\ t \in TargetIds /\ notifier[n].pc = "record"
           /\ UNCHANGED <<plain, received>>
           /\ delivery[e][t].status = "processing"
           /\ delivery[e][t].attempts = notifier[n].batch[e]
           /\ delivery'[e][t].attempts = notifier[n].batch[e]
           /\ delivery'[e][t].status \in {"sent", "failed"}
           /\ delivery'[e][t].status = "failed" /\ delivery'[e][t].transient =>
                 notifier'[n].pc = "mark" /\ notifier'[n].outcome = "error"
           /\ \A f \in Events, u \in TargetIds :
                 f # e \/ u # t => delivery'[f][u] = delivery[f][u]
  <1> DEFINE e == notifier[n].item  t == notifier[n].target
             outcome == notifier[n].outcome
             status == IF outcome = "sent" THEN "sent" ELSE "failed"
             row == [delivery[e][t] EXCEPT !.status = status,
                                           !.transient = (outcome = "transient")]
  <1>1. /\ e \in Events /\ t \in TargetIds /\ notifier[n].pc = "record"
        /\ delivery[e][t].status = "processing"
        /\ delivery[e][t].attempts = notifier[n].batch[e]
        /\ delivery[e][t] \in DeliveryRow
        /\ UNCHANGED <<plain, received>>
    BY ItemOf, CountTypes DEF RecordOutcome, AtTarget, StillMine, Requested
  <1>2. (outcome = "transient") \in BOOLEAN
    OBVIOUS
  <1>3. row \in DeliveryRow
    BY <1>1, <1>2 DEF DeliveryRow
  <1>4. /\ row.status = status /\ row.attempts = delivery[e][t].attempts
        /\ row.transient <=> (outcome = "transient")
    BY <1>1 DEF DeliveryRow
  <1>5. delivery' = [delivery EXCEPT ![e][t] = row]
    BY <1>1 DEF RecordOutcome, MemoryInv, TypeOK
  <1>6. outcome = "transient" => notifier'[n] = ItemFails(notifier[n])
    BY DEF RecordOutcome, Proceed, ItemContinues, MemoryInv, TypeOK
  <1>7. /\ ItemFails(notifier[n]).pc = "mark"
        /\ ItemFails(notifier[n]).outcome = "error"
    BY <1>1, ItemOf, ItemFailsRemembers
  <1> HIDE DEF row
  <1>8. /\ delivery'[e][t] = row
        /\ \A f \in Events, u \in TargetIds :
              f # e \/ u # t => delivery'[f][u] = delivery[f][u]
    <2> HIDE DEF e, t
    <2> QED BY <1>1, <1>5 DEF MemoryInv, TypeOK
  <1> QED BY <1>1, <1>4, <1>6, <1>7, <1>8

\* What a step may do to a delivery row.
DeliveryRowStep(e, t) ==
    \/ delivery'[e][t] = delivery[e][t]
    \/ delivery'[e][t] = NoDelivery /\ outbox'[e].status = "deleted"
    \/ /\ outbox'[e] = outbox[e] /\ outbox[e].status # "deleted"
       /\ delivery'[e][t].status = "processing"
       /\ delivery'[e][t].attempts > delivery[e][t].attempts
       /\ delivery'[e][t].attempts <= outbox[e].attempts
       /\ delivery[e][t].status # "sent"
    \/ /\ outbox'[e] = outbox[e] /\ outbox[e].status # "deleted"
       /\ delivery[e][t].status = "processing"
       /\ delivery'[e][t].status \in {"sent", "failed"}
       /\ delivery'[e][t].attempts = delivery[e][t].attempts

LEMMA DeliverySteps ==
    ASSUME CountingInv, [Next]_vars
    PROVE  \A e \in Events, t \in TargetIds : DeliveryRowStep(e, t)
  <1>1. CASE delivery' = delivery
    BY <1>1 DEF DeliveryRowStep
  <1>2. ASSUME NEW f \in Events, DeleteEvent(f)
        PROVE  \A e \in Events, t \in TargetIds : DeliveryRowStep(e, t)
    <2> SUFFICES ASSUME NEW e \in Events, NEW t \in TargetIds
                 PROVE  DeliveryRowStep(e, t)
      OBVIOUS
    <2>1. CASE e = f
      BY <1>2, <2>1 DEF DeleteEvent, DeliveryRowStep, CountingInv, MemoryInv, TypeOK
    <2>2. CASE e # f
      BY <1>2, <2>2 DEF DeleteEvent, DeliveryRowStep, CountingInv, MemoryInv, TypeOK
    <2> QED BY <2>1, <2>2
  <1>3. ASSUME NEW n \in Notifiers, BeginExternal(n)
        PROVE  \A e \in Events, t \in TargetIds : DeliveryRowStep(e, t)
    <2> DEFINE e == notifier[n].item  t == notifier[n].target
    <2>1. outbox' = outbox
      BY <1>3 DEF BeginExternal
    <2>2. /\ e \in Events /\ t \in TargetIds /\ outbox[e].status # "deleted"
          /\ notifier[n].batch[e] \in Nat \ {0}
          /\ \A f \in Events, u \in TargetIds :
                f # e \/ u # t => delivery'[f][u] = delivery[f][u]
          /\ \/ delivery' = delivery
             \/ /\ delivery'[e][t].status = "processing"
                /\ delivery'[e][t].attempts = notifier[n].batch[e]
                /\ \/ delivery[e][t].status = "absent"
                   \/ /\ delivery[e][t].status # "sent"
                      /\ ~(delivery[e][t].attempts >= notifier[n].batch[e])
      BY <1>3, BeginShape DEF CountingInv
    <2>3. notifier[n].batch[e] <= outbox[e].attempts
      BY <2>2 DEF CountingInv, AttemptsOfBatches
    <2>4. /\ delivery[e][t].attempts \in Nat
          /\ delivery[e][t].status = "absent" => delivery[e][t].attempts = 0
      BY <2>2, CountTypes DEF CountingInv, DeliveryRows
    <2>5. DeliveryRowStep(e, t)
      <3> HIDE DEF e, t
      <3> QED BY <2>1, <2>2, <2>3, <2>4 DEF DeliveryRowStep
    <2> HIDE DEF e, t
    <2> QED BY <2>2, <2>5 DEF DeliveryRowStep
  <1>4. ASSUME NEW n \in Notifiers, RecordOutcome(n)
        PROVE  \A e \in Events, t \in TargetIds : DeliveryRowStep(e, t)
    <2> DEFINE e == notifier[n].item  t == notifier[n].target
    <2>1. outbox' = outbox
      BY <1>4 DEF RecordOutcome
    <2>2. /\ e \in Events /\ t \in TargetIds
          /\ delivery[e][t].status = "processing"
          /\ delivery'[e][t].attempts = delivery[e][t].attempts
          /\ delivery'[e][t].status \in {"sent", "failed"}
          /\ \A f \in Events, u \in TargetIds :
                f # e \/ u # t => delivery'[f][u] = delivery[f][u]
      BY <1>4, RecordShape DEF CountingInv
    <2>3. outbox[e].status # "deleted"
      BY <2>2 DEF CountingInv, DeliveryRows
    <2> HIDE DEF e, t
    <2> QED BY <2>1, <2>2, <2>3 DEF DeliveryRowStep
  <1>5. CASE UNCHANGED vars
    BY <1>1, <1>5 DEF vars
  <1>6. CASE Next
    <2>1. ASSUME NEW e \in Events, Environment(e), ~DeleteEvent(e) PROVE delivery' = delivery
      BY <2>1 DEF Environment, InsertEvent, BackoffElapses, ManualRetry,
                  AbandonedLockAges, HeldLockAges, LockAges
    <2>2. ASSUME NEW n \in Notifiers, NotifierActs(n),
                 ~BeginExternal(n), ~RecordOutcome(n)
          PROVE  delivery' = delivery
      BY <2>2 DEF NotifierActs, ReleaseStale, Claim, StartItem, SkipTarget, DeliverInApp,
                  AddPlainRow, Send, StatementFails, MarkItem, StartsOver,
                  ClaimReplyLost, MarkMisses, MarkFails, Crash
    <2> QED BY <1>1, <1>2, <1>3, <1>4, <1>6, <2>1, <2>2, NextSplit
  <1> QED BY <1>5, <1>6

LEMMA NextDeliveryRows ==
    ASSUME CountingInv, [Next]_vars
    PROVE  DeliveryRows' /\ GivenUpInTheEnd'
  <1>1. ASSUME NEW e \in Events, NEW t \in TargetIds
        PROVE  /\ delivery'[e][t].status = "absent" => delivery'[e][t].attempts = 0
               /\ outbox'[e].status = "deleted" => delivery'[e][t].status = "absent"
    <2>1. DeliveryRowStep(e, t) /\ OutboxRowStep(e)
      BY <1>1, DeliverySteps, RowSteps DEF CountingInv
    <2>2. /\ delivery[e][t].status = "absent" => delivery[e][t].attempts = 0
          /\ outbox[e].status = "deleted" => delivery[e][t].status = "absent"
      BY DEF CountingInv, DeliveryRows
    <2> QED BY <2>1, <2>2 DEF DeliveryRowStep, OutboxRowStep, NoDelivery
  <1>2. ASSUME NEW e \in Events, outbox'[e].status = "failed"
        PROVE  outbox'[e].attempts >= MaxAttempts
    <2>1. OutboxRowStep(e)
      BY RowSteps DEF CountingInv
    <2> QED BY <1>2, <2>1 DEF OutboxRowStep, CountingInv, GivenUpInTheEnd
  <1> QED BY <1>1, <1>2 DEF DeliveryRows, GivenUpInTheEnd

LEMMA NextMessagesAreCounted ==
    ASSUME CountingInv, [Next]_vars
    PROVE  MessagesAreCounted'
  <1> SUFFICES ASSUME NEW e \in Events, NEW t \in TargetIds PROVE Counted(e, t)'
    BY DEF MessagesAreCounted
  <1> USE DEF CountingInv
  <1>1. CASE UNCHANGED vars
    BY <1>1, QuietTarget DEF vars
  <1>2. ASSUME NEW f \in Events, Environment(f) PROVE Counted(e, t)'
    <2>1. notifier' = notifier /\ received' = received
      BY <1>2 DEF Environment, InsertEvent, DeleteEvent, BackoffElapses, ManualRetry,
                  AbandonedLockAges, HeldLockAges, LockAges
    <2>2. CASE outbox'[e].status = "deleted"
      BY <2>2 DEF Counted
    <2>3. CASE outbox'[e].status # "deleted"
      <3>1. delivery'[e] = delivery[e]
        <4>1. CASE DeleteEvent(f)
          BY <2>3, <4>1 DEF DeleteEvent, NoOutbox, MemoryInv, TypeOK
        <4> QED BY <1>2, <4>1 DEF Environment, InsertEvent, BackoffElapses, ManualRetry,
                                  AbandonedLockAges, HeldLockAges, LockAges
      <3> QED BY <2>1, <3>1, QuietTarget
    <2> QED BY <2>2, <2>3
  <1>3. ASSUME NEW n \in Notifiers, BeginExternal(n) PROVE Counted(e, t)'
    <2>1. /\ \A k \in Notifiers \ {n} : notifier'[k] = notifier[k]
          /\ notifier'[n].item = notifier[n].item
          /\ notifier'[n].pc = "sending" => notifier'[n].target = notifier[n].target
          /\ UNCHANGED <<received, outbox>>
      <3>1. notifier[n].pc = "target" /\ ~Send(n) /\ UNCHANGED <<received, outbox>>
        BY <1>3 DEF BeginExternal, Send, AtTarget
      <3>2. NextTarget(notifier[n]).pc # "sending"
        BY <3>1, ItemOf, NextTargetRemembers
      <3>3. ItemStep(n)
        BY <1>3 DEF ItemStep
      <3> QED BY <3>1, <3>2, <3>3, ItemStepShape
    <2>2. CASE notifier'[n].pc # "sending" /\ delivery' = delivery
      BY <2>1, <2>2, QuietTarget DEF Senders
    <2>3. CASE e # notifier[n].item \/ t # notifier[n].target
      <3>1. delivery'[e][t] = delivery[e][t]
        BY <1>3, <2>3, BeginShape
      <3>2. n \notin Senders(e, t)'
        BY <2>1, <2>3 DEF Senders
      <3> QED BY <2>1, <3>1, <3>2, QuietTarget
    <2>4. CASE /\ e = notifier[n].item /\ t = notifier[n].target
               /\ ~(notifier'[n].pc # "sending" /\ delivery' = delivery)
      <3>1. /\ notifier[n].pc = "target" /\ outbox[e].status # "deleted"
            /\ notifier[n].batch[e] \in Nat \ {0}
            /\ delivery'[e][t].attempts = notifier[n].batch[e]
            /\ \/ delivery[e][t].status = "absent"
               \/ ~(delivery[e][t].attempts >= notifier[n].batch[e])
        BY <1>3, <2>4, BeginShape
      <3>2. Cardinality(Senders(e, t))' <= Cardinality(Senders(e, t)) + 1
        BY <2>1, SendersStep
      <3>3. Cardinality(Senders(e, t)) \in Nat /\ Cardinality(Senders(e, t))' \in Nat
        BY <2>1, SendersAreFinite, SendersStep
      <3>4. notifier[n].batch[e] <= outbox[e].attempts
        BY <3>1 DEF AttemptsOfBatches
      <3>5. delivery[e][t].attempts < notifier[n].batch[e]
        BY <3>1, CountTypes DEF DeliveryRows
      <3>6. received[e][t] + Cardinality(Senders(e, t)) <= delivery[e][t].attempts
        BY <3>1 DEF MessagesAreCounted, Counted
      <3>7. received[e][t] + Cardinality(Senders(e, t))' <= notifier[n].batch[e]
        BY <3>1, <3>2, <3>3, <3>5, <3>6, CountTypes
      <3> QED BY <2>1, <3>1, <3>4, <3>7 DEF Counted
    <2> QED BY <2>2, <2>3, <2>4
  <1>4. ASSUME NEW n \in Notifiers, Send(n) PROVE Counted(e, t)'
    <2>1. /\ \A k \in Notifiers \ {n} : notifier'[k] = notifier[k]
          /\ notifier'[n].pc # "sending"
          /\ notifier[n].pc = "sending"
          /\ UNCHANGED <<outbox, delivery>>
      <3>1. notifier[n].pc = "sending"
        BY <1>4 DEF Send, AtTarget
      <3>2. UNCHANGED <<outbox, delivery>>
        BY <1>4 DEF Send
      <3>3. ~SkipTarget(n) /\ ~DeliverInApp(n) /\ ~BeginExternal(n) /\ ~RecordOutcome(n)
        BY <3>1 DEF SkipTarget, DeliverInApp, BeginExternal, RecordOutcome, AtTarget
      <3> QED BY <1>4, <3>1, <3>2, <3>3, ItemStepShape DEF ItemStep
    <2>2. n \notin Senders(e, t)'
      BY <2>1 DEF Senders
    <2>3. CASE received'[e][t] = received[e][t]
      BY <2>1, <2>2, <2>3, QuietTarget
    <2>4. CASE received'[e][t] # received[e][t]
      <3>1. /\ notifier[n].item = e /\ notifier[n].target = t
            /\ received'[e][t] = received[e][t] + 1
        <4>1. received' = [received EXCEPT ![notifier[n].item][notifier[n].target] = @ + 1]
          BY <1>4, <2>4 DEF Send
        <4> QED BY <2>4, <4>1 DEF MemoryInv, TypeOK
      <3>2. n \in Senders(e, t)
        BY <2>1, <3>1 DEF Senders
      <3>3. /\ Cardinality(Senders(e, t)) \in Nat
            /\ Cardinality(Senders(e, t))' = Cardinality(Senders(e, t)) - 1
        BY <2>1, <2>2, <3>2, SendersAreFinite, SendersStep
      <3>4. received'[e][t] + Cardinality(Senders(e, t))'
              = received[e][t] + Cardinality(Senders(e, t))
        BY <3>1, <3>3, CountTypes
      <3> QED BY <2>1, <3>4 DEF MessagesAreCounted, Counted
    <2> QED BY <2>3, <2>4
  <1>5. ASSUME NEW n \in Notifiers, NotifierActs(n), ~BeginExternal(n), ~Send(n)
        PROVE  Counted(e, t)'
    <2>1. received' = received
      BY <1>5 DEF NotifierActs, ReleaseStale, Claim, StartItem, SkipTarget, DeliverInApp,
                  AddPlainRow, RecordOutcome, StatementFails, MarkItem, StartsOver,
                  ClaimReplyLost, MarkMisses, MarkFails, Crash
    <2>2. delivery'[e][t].attempts = delivery[e][t].attempts
      <3>1. CASE RecordOutcome(n)
        BY <3>1, RecordShape
      <3> QED BY <1>5, <3>1
          DEF NotifierActs, ReleaseStale, Claim, StartItem, SkipTarget, DeliverInApp,
              AddPlainRow, StatementFails, MarkItem, StartsOver,
              ClaimReplyLost, MarkMisses, MarkFails, Crash
    <2>3. /\ \A k \in Notifiers \ {n} : notifier'[k] = notifier[k]
          /\ notifier'[n].pc # "sending"
      <3>1. notifier \in [Notifiers -> NotifierState]
        BY DEF MemoryInv, TypeOK
      <3>2. CASE ReleaseStale(n)
        BY <3>1, <3>2 DEF ReleaseStale, NotifierState
      <3>3. CASE Claim(n)
        <4>1. \A k \in Notifiers \ {n} : notifier'[k] = notifier[k]
          BY <3>3, ClaimBatch
        <4>2. notifier'[n].item = None
          BY <3>3, ClaimBatch
        <4>3. Remembers(notifier[n])'
          BY <3>3, ClaimRemembers DEF MemoryInv, NotifierMemory
        <4> QED BY <4>1, <4>2, <4>3, NotificationOutboxAssumption DEF Remembers
      <3>4. CASE StartItem(n)
        BY <3>4, StartItemRemembers
      <3>5. CASE ItemStep(n)
        BY <1>5, <3>5, ItemStepShape, ItemOf, NextTargetRemembers
      <3>6. CASE MarkItem(n)
        BY <3>1, <3>6, MarkItemRemembers, AfterItemRemembers DEF MarkItem
      <3>7. CASE StartsOver(n)
        BY <3>1, <3>7, StartsOverRemembers DEF IdleNotifier
      <3> QED BY <1>5, <3>2, <3>3, <3>4, <3>5, <3>6, <3>7, NotifierActsSplit
    <2>4. n \notin Senders(e, t)'
      BY <2>3 DEF Senders
    <2> QED BY <2>1, <2>2, <2>3, <2>4, QuietTarget
  <1> QED BY <1>1, <1>2, <1>3, <1>4, <1>5, NextSplit

LEMMA NextCountingInv == CountingInv /\ [Next]_vars => CountingInv'
  BY NextMemoryInv, NextAttemptsOfBatches, NextDeliveryRows, NextMessagesAreCounted
     DEF CountingInv

LEMMA SpecCountingInv == Spec => []CountingInv
  BY InitCountingInv, NextCountingInv, PTL DEF Spec

\* In every behaviour, with any number of notifiers overtaking each other, a
\* provider accepts at most one message per attempt of the delivery row, and a
\* delivery row is never ahead of its event (begin_external_delivery).
THEOREM MessagesStayWithinAttempts == Spec => []SendsWithinAttempts
  <1>1. CountingInv => SendsWithinAttempts
    <2> SUFFICES ASSUME CountingInv, NEW e \in Events, NEW t \in TargetIds,
                        outbox[e].status # "deleted"
                 PROVE  /\ received[e][t] <= delivery[e][t].attempts
                        /\ delivery[e][t].attempts <= outbox[e].attempts
      BY DEF SendsWithinAttempts
    <2>1. Counted(e, t) /\ MemoryInv
      BY DEF CountingInv, MessagesAreCounted
    <2>2. Cardinality(Senders(e, t)) \in Nat
      BY SendersAreFinite
    <2> QED BY <2>1, <2>2, CountTypes DEF Counted
  <1> QED BY <1>1, SpecCountingInv, PTL

\* What has ended of an event stays as it is.
EventStaysEnded(e) ==
    /\ \A t \in TargetIds :
         delivery[e][t].status = "sent" /\ outbox'[e].status # "deleted" =>
             delivery'[e][t] = delivery[e][t]
    /\ outbox'[e].status = "failed" => outbox'[e].attempts >= MaxAttempts
    /\ outbox[e].status = "delivered" =>
         outbox'[e].status \in {"delivered", "deleted"}

\* The ends of deliveries and of events are final, whoever reaches them: the
\* guards of the delivery updates and of the outbox updates suffice.
THEOREM EndsStay == Spec => EndsAreFinal
  <1>1. ASSUME CountingInv, [Next]_vars, NEW e \in Events PROVE EventStaysEnded(e)
    <2>1. OutboxRowStep(e) /\ \A t \in TargetIds : DeliveryRowStep(e, t)
      BY <1>1, RowSteps, DeliverySteps DEF CountingInv
    <2>2. GivenUpInTheEnd'
      BY <1>1, NextDeliveryRows
    <2> QED BY <2>1, <2>2 DEF EventStaysEnded, OutboxRowStep, DeliveryRowStep,
                              GivenUpInTheEnd, WaitingStatus
  <1>2. CountingInv /\ [Next]_vars => [\A e \in Events : EventStaysEnded(e)]_vars
    BY <1>1
  <1>3. Spec => [][\A e \in Events : EventStaysEnded(e)]_vars
    BY <1>2, SpecCountingInv, PTL DEF Spec
  <1> QED BY <1>3 DEF EndsAreFinal, EventStaysEnded

-----------------------------------------------------------------------------
(* Locks that do not go stale under a working notifier.                    *)

\* The event is in the notifier's batch, still to be marked.
Holds(n, e) == notifier[n].batch[e] > 0 /\ outbox[e].status # "deleted"

\* A held row is processing, and nobody but its holder has its attempt.
HeldRowsAreOwned ==
    \A n \in Notifiers, e \in Events :
        Holds(n, e) => /\ outbox[e].status = "processing"
                       /\ ~outbox[e].stale
                       /\ outbox[e].attempts = notifier[n].batch[e]

\* The targets of e that n has not come to, and those it is done with.
Ahead(n, e, t) ==
    \/ notifier[n].item # e
    \/ notifier[n].pc = "target" /\ t >= notifier[n].target
    \/ notifier[n].pc \in {"sending", "record"} /\ t > notifier[n].target

Passed(n, e, t) ==
    /\ notifier[n].item = e
    /\ \/ notifier[n].pc \in {"target", "sending", "record"} /\ t < notifier[n].target
       \/ notifier[n].pc = "mark" /\ notifier[n].outcome = "ok"

\* The holder finds the rows ahead with attempts before its own, has settled
\* those it passed, and sends for a row that is its own.
Walked(n, e, t) ==
    /\ Ahead(n, e, t) => delivery[e][t].attempts < notifier[n].batch[e]
    /\ Passed(n, e, t) => Settled(e, t, notifier[n].batch[e])
    /\ n \in Senders(e, t) => delivery[e][t].status = "processing"

WalksAreSettled ==
    \A n \in Notifiers, e \in Events, t \in TargetIds : Holds(n, e) => Walked(n, e, t)

PromptInv ==
    /\ CountingInv
    /\ HeldRowsAreOwned
    /\ WalksAreSettled
    /\ DeliveredMeansSettled

LEMMA InitPromptInv == Init => PromptInv
  <1> SUFFICES ASSUME Init PROVE PromptInv
    OBVIOUS
  <1>1. \A n \in Notifiers, e \in Events : ~Holds(n, e)
    BY EmptyBatchIsABatch DEF Init, Holds, IdleNotifier
  <1>2. \A e \in Events : outbox[e].status = "absent"
    BY DEF Init, NoOutbox
  <1> QED BY <1>1, <1>2, InitCountingInv
          DEF PromptInv, HeldRowsAreOwned, WalksAreSettled, DeliveredMeansSettled

\* A row has one holder.
LEMMA OneHolder ==
    ASSUME CountingInv, HeldRowsAreOwned, NEW e \in Events,
           NEW n \in Notifiers, NEW k \in Notifiers, Holds(n, e), Holds(k, e)
    PROVE  n = k
  BY DEF CountingInv, AttemptsOfBatches, HeldRowsAreOwned, Holds

\* Who holds an event after a step held it before, in the same attempt and with
\* an untouched row, or has just claimed it.
LEMMA HoldSteps ==
    ASSUME ~Overtaking, CountingInv, HeldRowsAreOwned, [Next]_vars,
           NEW k \in Notifiers, NEW e \in Events, Holds(k, e)'
    PROVE  \/ /\ Holds(k, e)
              /\ outbox'[e] = outbox[e]
              /\ notifier'[k].batch[e] = notifier[k].batch[e]
           \/ /\ Claim(k)
              /\ outbox[e].status \in WaitingStatus
              /\ outbox'[e].status = "processing"
              /\ ~outbox'[e].stale
              /\ outbox'[e].attempts = outbox[e].attempts + 1
              /\ notifier'[k].batch[e] = outbox'[e].attempts
  <1> USE DEF CountingInv
  <1>1. /\ outbox'[e].status # "deleted" /\ outbox[e].status # "deleted"
        /\ notifier'[k].batch[e] > 0
    BY RowSteps, AttemptsGrow DEF Holds
  <1>2. CASE UNCHANGED vars
    BY <1>1, <1>2 DEF vars, Holds
  <1>3. ASSUME NEW f \in Events, Environment(f)
        PROVE  /\ Holds(k, e) /\ outbox'[e] = outbox[e]
               /\ notifier'[k].batch[e] = notifier[k].batch[e]
    <2>1. notifier' = notifier
      BY <1>3 DEF Environment, InsertEvent, DeleteEvent, BackoffElapses, ManualRetry,
                  AbandonedLockAges, HeldLockAges, LockAges
    <2>2. Holds(k, e)
      BY <1>1, <2>1 DEF Holds
    <2>3. /\ outbox[e].status = "processing"
          /\ notifier[k].batch[e] = outbox[e].attempts
      BY <2>2 DEF HeldRowsAreOwned
    <2>4. outbox \in [Events -> OutboxRow]
      BY DEF MemoryInv, TypeOK
    <2>5. CASE f # e
      <3>1. outbox'[e] = outbox[e]
        BY <1>3, <2>4, <2>5
           DEF Environment, InsertEvent, DeleteEvent, BackoffElapses, ManualRetry,
               AbandonedLockAges, HeldLockAges, LockAges
      <3> QED BY <2>1, <2>2, <3>1
    <2>6. CASE f = e
      <3>1. DeleteEvent(e)
        BY <1>3, <2>3, <2>6
           DEF Environment, InsertEvent, BackoffElapses, ManualRetry,
               AbandonedLockAges, HeldLockAges, Held
      <3>2. outbox'[e].status = "deleted"
        BY <2>4, <3>1 DEF DeleteEvent, NoOutbox
      <3> QED BY <1>1, <3>2
    <2> QED BY <2>1, <2>2, <2>5, <2>6
  <1>4. ASSUME NEW n \in Notifiers, Claim(n)
        PROVE  \/ /\ Holds(k, e)
                  /\ outbox'[e] = outbox[e]
                  /\ notifier'[k].batch[e] = notifier[k].batch[e]
               \/ /\ Claim(k)
                  /\ outbox[e].status \in WaitingStatus
                  /\ outbox'[e].status = "processing"
                  /\ ~outbox'[e].stale
                  /\ outbox'[e].attempts = outbox[e].attempts + 1
                  /\ notifier'[k].batch[e] = outbox'[e].attempts
    <2>1. CASE k = n
      BY <1>1, <1>4, <2>1, ClaimBatch
    <2>2. CASE k # n
      <3>1. notifier'[k] = notifier[k] /\ Holds(k, e)
        BY <1>1, <1>4, <2>2, ClaimBatch DEF Holds
      <3>2. outbox[e].status \notin WaitingStatus
        BY <3>1 DEF HeldRowsAreOwned, WaitingStatus
      <3> QED BY <1>4, <3>1, <3>2, ClaimBatch
    <2> QED BY <2>1, <2>2
  <1>5. ASSUME NEW n \in Notifiers, NotifierActs(n), ~Claim(n)
        PROVE  /\ Holds(k, e) /\ outbox'[e] = outbox[e]
               /\ notifier'[k].batch[e] = notifier[k].batch[e]
    <2>1. notifier'[k].batch[e] = notifier[k].batch[e] /\ Holds(k, e)
      BY <1>1, <1>5, BatchSteps DEF Holds
    <2>2. /\ outbox[e].status = "processing" /\ ~outbox[e].stale
      BY <2>1 DEF HeldRowsAreOwned
    <2>3. CASE ReleaseStale(n)
      BY <2>1, <2>2, <2>3 DEF ReleaseStale, Stuck
    <2>4. CASE ClaimReplyLost(n)
      BY <2>1, <2>2, <2>4, ClaimedRows DEF ClaimReplyLost, WaitingStatus
    <2>5. CASE notifier[n].pc = "mark" /\ MarkUpdate(n) /\ (MarkItem(n) \/ MarkFails(n))
      <3>1. outbox'[e] # outbox[e] => notifier[n].item = e
        BY <2>5, MarkUpdateRow
      <3>2. ASSUME notifier[n].item = e PROVE FALSE
        <4>1. Holds(n, e)
          BY <1>1, <2>5, <3>2, ItemOf DEF Holds
        <4>2. n = k
          BY <2>1, <4>1, OneHolder
        <4>3. notifier'[n].batch[e] = 0
          <5>1. CASE MarkItem(n)
            <6>1. notifier'[n].batch = Rest(n)
              BY <2>5, <5>1, MarkItemRemembers, AfterItemRemembers DEF MemoryInv, TypeOK
            <6> QED BY <3>2, <6>1 DEF Rest, MemoryInv, TypeOK, NotifierState
          <5>2. CASE MarkFails(n)
            BY <5>2, EmptyBatchIsABatch DEF MarkFails, IdleNotifier, MemoryInv, TypeOK
          <5> QED BY <2>5, <5>1, <5>2
        <4> QED BY <1>1, <4>2, <4>3
      <3>3. outbox'[e] = outbox[e]
        BY <3>1, <3>2
      <3> QED BY <2>1, <3>3
    <2>6. CASE outbox' = outbox
      BY <2>1, <2>6
    <2>7. \/ outbox' = outbox \/ ReleaseStale(n) \/ ClaimReplyLost(n)
          \/ notifier[n].pc = "mark" /\ MarkUpdate(n) /\ (MarkItem(n) \/ MarkFails(n))
      BY <1>5, NotifierActsSplit, ItemStepShape
         DEF StartItem, StartsOver, MarkItem, MarkMisses, MarkFails, Crash
    <2> HIDE DEF CountingInv
    <2> QED BY <2>3, <2>4, <2>5, <2>6, <2>7
  <1> QED BY <1>2, <1>3, <1>4, <1>5, NextSplit

LEMMA NextHeldRowsAreOwned ==
    ASSUME ~Overtaking, CountingInv, HeldRowsAreOwned, [Next]_vars
    PROVE  HeldRowsAreOwned'
  BY HoldSteps DEF HeldRowsAreOwned

\* Settled targets stay so while their delivery row stays and rows are added.
LEMMA SettledStays ==
    ASSUME NEW e \in Events, NEW t \in TargetIds, NEW a,
           Settled(e, t, a), delivery'[e][t] = delivery[e][t],
           plain[e][t] \subseteq plain'[e][t]
    PROVE  Settled(e, t, a)'
  BY DEF Settled

\* Only the holder of an event touches its delivery rows and its plain rows.
LEMMA OthersKeepOff ==
    ASSUME CountingInv, HeldRowsAreOwned, NEW n \in Notifiers, NotifierActs(n),
           NEW e \in Events, outbox[e].status # "deleted",
           NEW t \in TargetIds, ~(Holds(n, e) /\ notifier[n].item = e)
    PROVE  delivery'[e][t] = delivery[e][t] /\ plain'[e][t] = plain[e][t]
  <1>1. CASE notifier[n].pc \in {"target", "sending", "record"}
    <2>1. notifier[n].item \in Events /\ notifier[n].item # e
      BY <1>1, ItemOf DEF CountingInv, Holds
    <2>2. CASE BeginExternal(n)
      BY <2>1, <2>2, BeginShape DEF CountingInv
    <2>3. CASE RecordOutcome(n)
      BY <2>1, <2>3, RecordShape DEF CountingInv
    <2>4. CASE SkipTarget(n) \/ DeliverInApp(n)
      BY <2>1, <2>4 DEF SkipTarget, DeliverInApp, AddPlainRow, CountingInv, MemoryInv, TypeOK
    <2> QED BY <1>1, <2>2, <2>3, <2>4
            DEF NotifierActs, ReleaseStale, Claim, StartItem, Send, StatementFails,
                MarkItem, StartsOver, ClaimReplyLost, MarkMisses, MarkFails, Crash
  <1>2. CASE notifier[n].pc \notin {"target", "sending", "record"}
    BY <1>2 DEF NotifierActs, ReleaseStale, Claim, StartItem, Send, StatementFails,
                MarkItem, StartsOver, ClaimReplyLost, MarkMisses, MarkFails, Crash,
                BeginExternal, RecordOutcome, SkipTarget, DeliverInApp, AtTarget
  <1> QED BY <1>1, <1>2

\* The target a holder leaves for the next one is settled.
LEMMA TargetIsSettled ==
    ASSUME CountingInv, WalksAreSettled, NEW n \in Notifiers, NEW e, NEW t, NEW a,
           e = notifier[n].item, t = notifier[n].target, a = notifier[n].batch[e],
           Holds(n, e), notifier'[n] = NextTarget(notifier[n]),
           SkipTarget(n) \/ DeliverInApp(n) \/ BeginExternal(n) \/ RecordOutcome(n)
    PROVE  /\ Settled(e, t, a)'
           /\ \A u \in TargetIds \ {t} :
                 delivery'[e][u] = delivery[e][u] /\ plain'[e][u] = plain[e][u]
  <1>1. /\ notifier[n].pc \in {"target", "record"}
        /\ notifier[n] \in NotifierState
        /\ e \in Events /\ t \in TargetIds /\ a \in Nat \ {0}
    <2>1. notifier[n].pc \in {"target", "record"}
      BY DEF SkipTarget, DeliverInApp, BeginExternal, RecordOutcome, AtTarget
    <2> QED BY <2>1, ItemOf DEF CountingInv
  <1>2. /\ NextTarget(notifier[n]).batch = notifier[n].batch
        /\ \/ NextTarget(notifier[n]).pc = "target"
           \/ NextTarget(notifier[n]).pc = "mark" /\ NextTarget(notifier[n]).outcome = "ok"
    BY <1>1, NextTargetRemembers
  <1>4. CASE SkipTarget(n) \/ DeliverInApp(n)
    <2>1. PICK status \in {"sent", "skipped"} : AddPlainRow(n, status)
      BY <1>4, PlainSteps
    <2>2. plain' = [plain EXCEPT ![e][t] = @ \cup {<<status, a>>}]
      BY <2>1 DEF AddPlainRow, Requested
    <2>3. plain \in [Events -> [TargetIds -> SUBSET PlainRow]] /\ delivery' = delivery
      BY <2>1 DEF AddPlainRow, CountingInv, MemoryInv, TypeOK
    <2>4. /\ <<status, a>> \in plain'[e][t]
          /\ \A u \in TargetIds \ {t} : plain'[e][u] = plain[e][u]
      BY <1>1, <2>2, <2>3
    <2> QED BY <2>3, <2>4 DEF Settled
  <1>5. CASE BeginExternal(n)
    <2>1. /\ UNCHANGED <<plain, delivery>>
          /\ \/ delivery[e][t].status = "sent"
             \/ delivery[e][t].attempts >= a
          /\ notifier[n].pc = "target"
      BY <1>2, <1>5, BeginShape DEF CountingInv
    <2>2. delivery[e][t].attempts < a
      <3>1. Ahead(n, e, t)
        BY <1>1, <2>1, TargetIdsAreNumbers DEF Ahead
      <3> QED BY <1>1, <3>1 DEF WalksAreSettled, Walked
    <2>3. delivery[e][t].attempts \in Nat
      BY <1>1, CountTypes DEF CountingInv
    <2> QED BY <1>1, <2>1, <2>2, <2>3 DEF Settled
  <1>6. CASE RecordOutcome(n)
    <2>1. /\ plain' = plain
          /\ \/ delivery'[e][t].status = "sent"
             \/ delivery'[e][t].status = "failed" /\ ~delivery'[e][t].transient
          /\ \A u \in TargetIds \ {t} : delivery'[e][u] = delivery[e][u]
      BY <1>1, <1>2, <1>6, RecordShape DEF CountingInv
    <2> QED BY <2>1 DEF Settled
  <1> QED BY <1>4, <1>5, <1>6

\* The holder's step within an item keeps its walk.
LEMMA ItemStepWalks ==
    ASSUME CountingInv, WalksAreSettled, NEW n \in Notifiers, ItemStep(n),
           NEW e \in Events, Holds(n, e), notifier[n].item = e, NEW t \in TargetIds
    PROVE  Walked(n, e, t)'
  <1> PICK x : x = notifier[n].target
    OBVIOUS
  <1> PICK a : a = notifier[n].batch[e]
    OBVIOUS
  <1>1. /\ notifier'[n].batch[e] = a /\ notifier'[n].item = e
        /\ notifier[n] \in NotifierState
        /\ notifier[n].pc \in {"target", "sending", "record"}
        /\ x \in TargetIds /\ notifier[n].batch[e] > 0
    BY ItemStepShape, ItemOf DEF CountingInv
  <1>2. Walked(n, e, t)
    BY DEF WalksAreSettled
  <1>3. x \in Nat /\ t \in Nat /\ t <= Len(Targets) /\ Len(Targets) \in Nat
    BY <1>1, TargetIdsAreNumbers
  <1>4. CASE notifier'[n].pc = "mark" /\ notifier'[n].outcome = "error"
    BY <1>1, <1>4 DEF Walked, Ahead, Passed, Senders
  <1>5. CASE /\ notifier'[n] = NextTarget(notifier[n])
             /\ SkipTarget(n) \/ DeliverInApp(n) \/ BeginExternal(n) \/ RecordOutcome(n)
    <2>1. /\ t = x => Settled(e, t, a)'
          /\ t # x => delivery'[e][t] = delivery[e][t] /\ plain'[e][t] = plain[e][t]
      BY <1>1, <1>5, TargetIsSettled
    <2>2. \/ notifier'[n].pc = "mark" /\ notifier'[n].outcome = "ok" /\ x = Len(Targets)
          \/ notifier'[n].pc = "target" /\ notifier'[n].target = x + 1
      BY <1>1, <1>5, NextTargetRemembers
    <2>3. notifier[n].pc \in {"target", "record"}
      BY <1>5 DEF SkipTarget, DeliverInApp, BeginExternal, RecordOutcome, AtTarget
    <2>4. CASE t = x
      BY <1>1, <1>3, <2>1, <2>2, <2>4 DEF Walked, Ahead, Passed, Senders
    <2>5. CASE t < x
      <3>1. Settled(e, t, a)
        BY <1>1, <1>2, <2>3, <2>5 DEF Walked, Passed
      <3>2. Settled(e, t, a)'
        BY <2>1, <2>5, <3>1, <1>1, SettledStays
      <3> QED BY <1>1, <1>3, <2>2, <2>5, <3>2 DEF Walked, Ahead, Passed, Senders
    <2>6. CASE t > x
      <3>1. delivery'[e][t].attempts < a
        BY <1>1, <1>2, <1>3, <2>1, <2>3, <2>6 DEF Walked, Ahead
      <3> QED BY <1>1, <1>3, <2>2, <2>6, <3>1 DEF Walked, Ahead, Passed, Senders
    <2> QED BY <1>3, <2>4, <2>5, <2>6
  <1>6. CASE /\ BeginExternal(n) /\ notifier'[n].pc = "sending"
             /\ notifier'[n].target = x
    <2>1. /\ plain' = plain /\ notifier[n].pc = "target"
          /\ t # x => delivery'[e][t] = delivery[e][t]
          /\ t = x => delivery'[e][t].status = "processing"
      BY <1>1, <1>6, BeginShape DEF CountingInv
    <2>2. CASE t = x
      BY <1>1, <1>3, <1>6, <2>1, <2>2 DEF Walked, Ahead, Passed, Senders
    <2>3. CASE t # x
      BY <1>1, <1>2, <1>3, <1>6, <2>1, <2>3
         DEF Walked, Ahead, Passed, Senders, Settled
    <2> QED BY <2>2, <2>3
  <1>7. CASE Send(n) /\ notifier'[n].pc = "record" /\ notifier'[n].target = x
    <2>1. notifier[n].pc = "sending" /\ UNCHANGED <<delivery, plain>>
      BY <1>7 DEF Send, AtTarget
    <2> QED BY <1>1, <1>2, <1>7, <2>1
            DEF Walked, Ahead, Passed, Senders, Settled
  <1> QED BY <1>4, <1>5, <1>6, <1>7, ItemStepShape DEF CountingInv

\* A deletion apart, the environment leaves delivery and plain rows alone.
LEMMA EnvironmentKeepsOff ==
    ASSUME MemoryInv, NEW f \in Events, Environment(f), NEW e \in Events,
           outbox'[e].status # "deleted", NEW t \in TargetIds
    PROVE  /\ delivery'[e][t] = delivery[e][t] /\ plain'[e][t] = plain[e][t]
           /\ notifier' = notifier
           /\ outbox'[e].status = "delivered" => outbox[e].status = "delivered"
  <1>1. outbox \in [Events -> OutboxRow]
    BY DEF MemoryInv, TypeOK
  <1>2. CASE DeleteEvent(f)
    <2>1. e # f
      BY <1>1, <1>2 DEF DeleteEvent, NoOutbox
    <2> QED BY <1>1, <1>2, <2>1 DEF DeleteEvent, MemoryInv, TypeOK
  <1>3. CASE f = e /\ ~DeleteEvent(f)
    <2>1. outbox'[e].status \in {"pending", "retryable", "processing"}
      BY <1>1, <1>3
         DEF Environment, InsertEvent, BackoffElapses, ManualRetry,
             AbandonedLockAges, HeldLockAges, LockAges, OutboxRow
    <2> QED BY <1>3, <2>1
            DEF Environment, InsertEvent, BackoffElapses, ManualRetry,
                AbandonedLockAges, HeldLockAges, LockAges
  <1>4. CASE f # e /\ ~DeleteEvent(f)
    BY <1>1, <1>4 DEF Environment, InsertEvent, BackoffElapses, ManualRetry,
                      AbandonedLockAges, HeldLockAges, LockAges
  <1> QED BY <1>2, <1>3, <1>4

\* A walk goes on while nobody touches what it is about.
LEMMA WalkStays ==
    ASSUME NEW n \in Notifiers, NEW e \in Events, NEW t \in TargetIds, Walked(n, e, t),
           notifier'[n] = notifier[n], delivery'[e][t] = delivery[e][t],
           plain'[e][t] = plain[e][t]
    PROVE  Walked(n, e, t)'
  BY DEF Walked, Ahead, Passed, Settled, Senders

\* A notifier that is not at work on an event finds all its targets ahead.
LEMMA WalkAhead ==
    ASSUME NEW n \in Notifiers, NEW e \in Events, NEW t \in TargetIds,
           notifier'[n].item # e,
           delivery'[e][t].attempts < notifier'[n].batch[e]
    PROVE  Walked(n, e, t)'
  BY DEF Walked, Ahead, Passed, Senders

LEMMA NextWalksAreSettled ==
    ASSUME ~Overtaking, PromptInv, [Next]_vars
    PROVE  WalksAreSettled'
  <1> SUFFICES ASSUME NEW k \in Notifiers, NEW e \in Events, NEW t \in TargetIds,
                      Holds(k, e)'
               PROVE  Walked(k, e, t)'
    BY DEF WalksAreSettled
  <1> USE DEF PromptInv, CountingInv
  <1>1. /\ outbox'[e].status # "deleted" /\ outbox[e].status # "deleted"
        /\ notifier'[k].batch[e] > 0
    BY RowSteps, AttemptsGrow DEF Holds
  <1>2. CASE Claim(k)
    <2>1. outbox'[e].attempts = outbox[e].attempts + 1
          /\ notifier'[k].batch[e] = outbox'[e].attempts
          /\ notifier'[k].item = None /\ delivery' = delivery
      BY <1>1, <1>2, ClaimBatch
    <2>2. delivery[e][t].attempts <= outbox[e].attempts
      BY <1>1 DEF MessagesAreCounted, Counted
    <2>3. delivery'[e][t].attempts < notifier'[k].batch[e]
      BY <2>1, <2>2, CountTypes
    <2> QED BY <2>1, <2>3, WalkAhead, NotificationOutboxAssumption
  <1>3. CASE ~Claim(k)
    <2>1. /\ Holds(k, e) /\ outbox'[e] = outbox[e]
          /\ notifier'[k].batch[e] = notifier[k].batch[e]
      BY <1>3, HoldSteps
    <2>2. Walked(k, e, t)
      BY <2>1 DEF WalksAreSettled
    <2>3. CASE UNCHANGED vars
      BY <2>2, <2>3, WalkStays DEF vars
    <2>4. ASSUME NEW f \in Events, Environment(f) PROVE Walked(k, e, t)'
      BY <1>1, <2>2, <2>4, EnvironmentKeepsOff, WalkStays
    <2>5. ASSUME NEW n \in Notifiers, NotifierActs(n), n # k PROVE Walked(k, e, t)'
      <3>1. ~Holds(n, e)
        BY <2>1, <2>5, OneHolder
      <3>2. notifier'[k] = notifier[k]
        BY <2>5, BatchSteps, ClaimBatch
      <3> QED BY <1>1, <2>2, <2>5, <3>1, <3>2, OthersKeepOff, WalkStays
    <2>6. ASSUME NotifierActs(k), notifier[k].item # e, notifier'[k].item # e
          PROVE  Walked(k, e, t)'
      <3>1. delivery[e][t].attempts < notifier[k].batch[e]
        BY <2>2, <2>6 DEF Walked, Ahead
      <3>2. delivery'[e][t] = delivery[e][t]
        BY <1>1, <2>6, OthersKeepOff
      <3> QED BY <2>1, <2>6, <3>1, <3>2, WalkAhead
    <2>7. CASE ReleaseStale(k) \/ StartsOver(k)
      <3>1. CASE ReleaseStale(k)
        <4>1. notifier[k].batch = EmptyBatch
          BY <3>1 DEF ReleaseStale, MemoryInv, NotifierMemory, Remembers
        <4> QED BY <1>1, <2>1, <4>1, EmptyBatchIsABatch
      <3>2. CASE StartsOver(k)
        <4>1. notifier'[k] = IdleNotifier
          BY <3>2, StartsOverRemembers DEF MemoryInv, TypeOK
        <4> QED BY <1>1, <4>1, EmptyBatchIsABatch DEF IdleNotifier
      <3> QED BY <2>7, <3>1, <3>2
    <2>8. CASE StartItem(k)
      <3>1. notifier[k].item = None /\ delivery' = delivery
        BY <2>8 DEF StartItem, MemoryInv, NotifierMemory, Remembers
      <3>2. delivery'[e][t].attempts < notifier'[k].batch[e]
        BY <2>1, <2>2, <3>1, NotificationOutboxAssumption DEF Walked, Ahead
      <3>3. \/ notifier'[k].pc = "target" /\ notifier'[k].target = 1
            \/ notifier'[k].pc = "mark" /\ notifier'[k].outcome # "ok"
        BY <2>8, StartItemRemembers
      <3>4. ~(t < 1)
        BY TargetIdsAreNumbers
      <3> QED BY <3>2, <3>3, <3>4 DEF Walked, Ahead, Passed, Senders
    <2>9. CASE ItemStep(k)
      <3>1. notifier'[k].item = notifier[k].item
        BY <2>9, ItemStepShape
      <3>2. CASE notifier[k].item = e
        BY <2>1, <2>9, <3>2, ItemStepWalks
      <3>3. CASE notifier[k].item # e
        BY <2>6, <2>9, <3>1, <3>3 DEF ItemStep, NotifierActs
      <3> QED BY <3>2, <3>3
    <2>10. CASE MarkItem(k)
      <3>1. /\ notifier'[k].item = None /\ notifier'[k].batch = Rest(k)
        BY <2>10, MarkItemRemembers, AfterItemRemembers DEF MarkItem, MemoryInv, TypeOK
      <3>2. notifier[k].item # e
        BY <1>1, <3>1 DEF Rest, MemoryInv, TypeOK, NotifierState
      <3> QED BY <2>6, <2>10, <3>1, <3>2, NotificationOutboxAssumption DEF NotifierActs
    <2> QED BY <1>3, <2>3, <2>4, <2>5, <2>7, <2>8, <2>9, <2>10,
               NextSplit, NotifierActsSplit
  <1> QED BY <1>2, <1>3

\* An event becomes delivered by the mark of a notifier whose item was good.
LEMMA DeliveredByMark ==
    ASSUME MemoryInv, NEW n \in Notifiers, NotifierActs(n), NEW e \in Events,
           outbox'[e].status = "delivered", outbox[e].status # "delivered"
    PROVE  /\ notifier[n].pc = "mark" /\ notifier[n].outcome = "ok"
           /\ notifier[n].item = e
           /\ outbox[e].status = "processing"
           /\ outbox'[e].attempts = outbox[e].attempts
           /\ UNCHANGED <<delivery, plain>>
  <1>1. CASE ReleaseStale(n)
    BY <1>1 DEF ReleaseStale, Released, MemoryInv, TypeOK, OutboxRow
  <1>2. CASE Claim(n) \/ ClaimReplyLost(n)
    BY <1>2, ClaimedRows DEF Claim, ClaimReplyLost
  <1>3. CASE notifier[n].pc = "mark" /\ MarkUpdate(n) /\ UNCHANGED <<delivery, plain>>
    BY <1>3, MarkUpdateRow
  <1>4. CASE outbox' = outbox
    BY <1>4
  <1> QED BY <1>1, <1>2, <1>3, <1>4, NotifierActsSplit, ItemStepShape
          DEF StartItem, StartsOver, MarkItem, MarkMisses, MarkFails, Crash

LEMMA NextDeliveredMeansSettled ==
    ASSUME ~Overtaking, PromptInv, [Next]_vars
    PROVE  DeliveredMeansSettled'
  <1> SUFFICES ASSUME NEW e \in Events, outbox'[e].status = "delivered",
                      NEW t \in TargetIds
               PROVE  Settled(e, t, outbox[e].attempts)'
    BY DEF DeliveredMeansSettled
  <1> USE DEF PromptInv, CountingInv
  <1> PICK a : a = outbox'[e].attempts
    OBVIOUS
  <1>1. SUFFICES Settled(e, t, a)'
    BY DEF Settled
  <1>2. CASE outbox[e].status = "delivered"
    <2>1. outbox'[e].attempts = outbox[e].attempts
      BY <1>2, RowSteps DEF OutboxRowStep, WaitingStatus
    <2>2. Settled(e, t, a)
      BY <1>2, <2>1 DEF DeliveredMeansSettled
    <2>3. \A n \in Notifiers : ~Holds(n, e)
      BY <1>2 DEF HeldRowsAreOwned
    <2>4. delivery'[e][t] = delivery[e][t] /\ plain'[e][t] = plain[e][t]
      BY <1>2, <2>3, NextSplit, EnvironmentKeepsOff, OthersKeepOff DEF vars
    <2> QED BY <2>2, <2>4, SettledStays
  <1>3. CASE outbox[e].status # "delivered"
    <2>1. PICK n \in Notifiers : NotifierActs(n)
      BY <1>3, NextSplit, EnvironmentKeepsOff DEF vars
    <2>2. /\ notifier[n].pc = "mark" /\ notifier[n].outcome = "ok"
          /\ notifier[n].item = e
          /\ outbox[e].status = "processing"
          /\ outbox'[e].attempts = outbox[e].attempts
          /\ UNCHANGED <<delivery, plain>>
      BY <1>3, <2>1, DeliveredByMark
    <2>3. Holds(n, e)
      BY <2>2, ItemOf DEF Holds
    <2>4. Settled(e, t, notifier[n].batch[e])
      BY <2>2, <2>3 DEF WalksAreSettled, Walked, Passed
    <2>5. a = notifier[n].batch[e]
      BY <2>2, <2>3 DEF HeldRowsAreOwned
    <2> QED BY <2>2, <2>4, <2>5 DEF Settled
  <1> QED BY <1>2, <1>3

LEMMA NextPromptInv == ~Overtaking /\ PromptInv /\ [Next]_vars => PromptInv'
  BY NextCountingInv, NextHeldRowsAreOwned, NextWalksAreSettled,
     NextDeliveredMeansSettled DEF PromptInv

LEMMA SpecPromptInv == ASSUME ~Overtaking PROVE Spec => []PromptInv
  <1>1. PromptInv /\ [Next]_vars => PromptInv'
    BY NextPromptInv
  <1> QED BY <1>1, InitPromptInv, PTL DEF Spec

\* While no lock goes stale under its notifier, an event is marked delivered
\* only when its last attempt settled every target (dispatch of an item and
\* mark_outbox_delivered).
THEOREM DeliveredIsSettled == ASSUME ~Overtaking PROVE Spec => []DeliveredMeansSettled
  <1>1. PromptInv => DeliveredMeansSettled
    BY DEF PromptInv
  <1> QED BY <1>1, SpecPromptInv, PTL

\* A step of one notifier, or of the environment, sends to the target its
\* notifier was sending to.
LEMMA ReceivedBySend ==
    ASSUME MemoryInv, [Next]_vars, NEW e \in Events, NEW t \in TargetIds,
           received'[e][t] # received[e][t]
    PROVE  \E n \in Notifiers : n \in Senders(e, t)
  <1>1. PICK n \in Notifiers : Send(n)
    BY NextSplit
       DEF vars, Environment, InsertEvent, DeleteEvent, BackoffElapses, ManualRetry,
           AbandonedLockAges, HeldLockAges, LockAges,
           NotifierActs, ReleaseStale, Claim, StartItem, SkipTarget, DeliverInApp,
           AddPlainRow, BeginExternal, RecordOutcome, StatementFails, MarkItem,
           StartsOver, ClaimReplyLost, MarkMisses, MarkFails, Crash
  <1>2. received' = [received EXCEPT ![notifier[n].item][notifier[n].target] = @ + 1]
    BY <1>1 DEF Send
  <1>3. notifier[n].item = e /\ notifier[n].target = t
    BY <1>2 DEF MemoryInv, TypeOK
  <1> QED BY <1>1, <1>3 DEF Send, AtTarget, Senders

\* What a step leaves of a delivery that was sent.
StaysSent(e, t) ==
    delivery[e][t].status = "sent" =>
        /\ received'[e][t] = received[e][t]
        /\ outbox'[e].status # "deleted" => delivery'[e][t].status = "sent"

\* While no lock goes stale under its notifier, a message recorded as sent is
\* not sent again by a retry or after a restart (begin_external_delivery and
\* the guards of its updates).
THEOREM SentStaysSent == ASSUME ~Overtaking PROVE Spec => SentIsNeverResent
  <1>1. ASSUME PromptInv, [Next]_vars, NEW e \in Events, NEW t \in TargetIds
        PROVE  StaysSent(e, t)
    <2> SUFFICES ASSUME delivery[e][t].status = "sent"
                 PROVE  /\ received'[e][t] = received[e][t]
                        /\ outbox'[e].status # "deleted" => delivery'[e][t].status = "sent"
      BY DEF StaysSent
    <2>1. CountingInv
      BY <1>1 DEF PromptInv
    <2>2. outbox[e].status # "deleted"
      BY <2>1 DEF CountingInv, DeliveryRows
    <2>3. DeliveryRowStep(e, t)
      BY <1>1, <2>1, DeliverySteps
    <2>4. ASSUME received'[e][t] # received[e][t] PROVE FALSE
      <3>1. PICK n \in Notifiers : n \in Senders(e, t)
        BY <1>1, <2>1, <2>4, ReceivedBySend DEF CountingInv
      <3>2. Holds(n, e)
        BY <2>1, <2>2, <3>1, ItemOf DEF CountingInv, Senders, Holds
      <3> QED BY <1>1, <3>1, <3>2 DEF PromptInv, WalksAreSettled, Walked
    <2> QED BY <2>3, <2>4 DEF DeliveryRowStep
  <1>2. PromptInv /\ [Next]_vars =>
          [\A e \in Events, t \in TargetIds : StaysSent(e, t)]_vars
    BY <1>1
  <1>3. Spec => [][\A e \in Events, t \in TargetIds : StaysSent(e, t)]_vars
    BY <1>2, SpecPromptInv, PTL DEF Spec
  <1> QED BY <1>3 DEF SentIsNeverResent, StaysSent
=============================================================================
