------------------------- MODULE NotificationOutbox -------------------------
(***************************************************************************)
(* The notification outbox of coin-listener: one notification_outbox row   *)
(* per event, the notifiers that claim rows in batches, walk the targets   *)
(* of each event and finalise the row, the delivery rows with their        *)
(* idempotency key, and the release of rows whose lock went stale.         *)
(*                                                                         *)
(* A SQL statement or transaction is one action; what a notifier remembers *)
(* between two of them is its record in notifier.  due stands for          *)
(* next_attempt_at <= now, stale for locked_at < now - stale_lock_seconds. *)
(* locked_by is written and never read, so it is left out, and a process   *)
(* that restarts is the same notifier with an empty memory.                *)
(*                                                                         *)
(* A target is a matching rule with its channel.  The provider behind an   *)
(* external channel is modelled by the number of messages it accepted.     *)
(***************************************************************************)
EXTENDS Naturals, Sequences, FiniteSets

CONSTANTS
    Notifiers,      \* notifier processes
    Events,         \* address_events a scan may insert
    Targets,        \* kind of each target, in the order of the rules
    BatchSize,      \* NOTIFICATION_OUTBOX_BATCH_SIZE
    MaxAttempts,    \* NOTIFICATION_OUTBOX_MAX_ATTEMPTS
    MaxFaults,      \* bound: faults and manual retries that ever happen
    Overtaking,     \* may a lock go stale while its notifier still works?
    None

ASSUME NotificationOutboxAssumption ==
    /\ IsFiniteSet(Notifiers)
    /\ Targets \in Seq({"external", "in_app"})
    /\ BatchSize \in Nat \ {0}
    /\ MaxAttempts \in Nat \ {0}
    /\ MaxFaults \in Nat
    /\ Overtaking \in BOOLEAN
    /\ None \notin Events

VARIABLES
    outbox,     \* notification_outbox, by event
    delivery,   \* notification_deliveries that have an idempotency key
    plain,      \* notification_deliveries without one: in-app and skipped
    received,   \* messages the provider of an external target accepted
    notifier,   \* what each notifier remembers
    faults      \* faults that may still happen

vars == <<outbox, delivery, plain, received, notifier, faults>>

TargetIds == DOMAIN Targets
WaitingStatus == {"pending", "retryable"}
FinalStatus == {"delivered", "failed", "deleted"}

OutboxRow == [status : WaitingStatus \cup FinalStatus \cup {"absent", "processing"},
              attempts : Nat,
              due : BOOLEAN,
              stale : BOOLEAN]

\* transient is told by last_error and provider_status_code.
DeliveryRow == [status : {"absent", "processing", "sent", "failed"},
                attempts : Nat,
                transient : BOOLEAN]

\* The status of a row without a key and its attempt_count.
PlainRow == {"sent", "skipped"} \X Nat

\* batch holds the attempt_count each claimed item was returned with, or 0.
NotifierState == [pc : {"idle", "released", "batch", "target", "sending",
                        "record", "mark"},
                  batch : [Events -> Nat],
                  item : Events \cup {None},
                  target : 0..Len(Targets),
                  outcome : {"none", "sent", "permanent", "transient",
                             "ok", "error"}]

NoOutbox == [status |-> "absent", attempts |-> 0, due |-> FALSE, stale |-> FALSE]
NoDelivery == [status |-> "absent", attempts |-> 0, transient |-> FALSE]
EmptyBatch == [e \in Events |-> 0]
IdleNotifier == [pc |-> "idle", batch |-> EmptyBatch, item |-> None,
                 target |-> 0, outcome |-> "none"]

Init ==
    /\ outbox = [e \in Events |-> NoOutbox]
    /\ delivery = [e \in Events |-> [t \in TargetIds |-> NoDelivery]]
    /\ plain = [e \in Events |-> [t \in TargetIds |-> {}]]
    /\ received = [e \in Events |-> [t \in TargetIds |-> 0]]
    /\ notifier = [n \in Notifiers |-> IdleNotifier]
    /\ faults = MaxFaults

Fault == faults > 0 /\ faults' = faults - 1

-----------------------------------------------------------------------------
(* Events, time and the API.                                               *)

\* A scan inserts the event and its outbox row in one transaction.
InsertEvent(e) ==
    /\ outbox[e].status = "absent"
    /\ outbox' = [outbox EXCEPT ![e].status = "pending", ![e].due = TRUE]
    /\ UNCHANGED <<delivery, plain, received, notifier, faults>>

\* Deleting the watched address cascades to the event and to its rows.
DeleteEvent(e) ==
    /\ outbox[e].status \notin {"absent", "deleted"}
    /\ outbox' = [outbox EXCEPT ![e] = [NoOutbox EXCEPT !.status = "deleted"]]
    /\ delivery' = [delivery EXCEPT ![e] = [t \in TargetIds |-> NoDelivery]]
    /\ plain' = [plain EXCEPT ![e] = [t \in TargetIds |-> {}]]
    /\ UNCHANGED <<received, notifier, faults>>

BackoffElapses(e) ==
    /\ outbox[e].status = "retryable"
    /\ ~outbox[e].due
    /\ outbox' = [outbox EXCEPT ![e].due = TRUE]
    /\ UNCHANGED <<delivery, plain, received, notifier, faults>>

\* Some notifier is still working on the row's current attempt.
Held(e) == \E n \in Notifiers : notifier[n].batch[e] = outbox[e].attempts

LockAges(e) ==
    /\ outbox[e].status = "processing"
    /\ ~outbox[e].stale
    /\ outbox' = [outbox EXCEPT ![e].stale = TRUE]
    /\ UNCHANGED <<delivery, plain, received, notifier>>

\* The lock of a row that nobody works on any more.
AbandonedLockAges(e) == ~Held(e) /\ LockAges(e) /\ UNCHANGED faults

\* locked_at is when the batch was claimed and is not renewed, so that a slow
\* batch outlives it.
HeldLockAges(e) == Overtaking /\ Held(e) /\ LockAges(e) /\ Fault

\* POST /notification-outbox/{id}/retry; attempt_count stays.
ManualRetry(e) ==
    /\ outbox[e].status \in {"failed", "retryable"}
    /\ outbox' = [outbox EXCEPT ![e].status = "retryable", ![e].due = TRUE]
    /\ Fault
    /\ UNCHANGED <<delivery, plain, received, notifier>>

-----------------------------------------------------------------------------
(* A batch: release, claim, then item by item.                             *)

Released(row) ==
    [row EXCEPT !.status = "retryable", !.due = TRUE, !.stale = FALSE]

\* Faulty: nothing is ever released.
NeverStuck(row) == row.status = "processing" /\ row.stale /\ row.due

Stuck(row) == row.status = "processing" /\ row.stale

ReleaseStale(n) ==
    /\ notifier[n].pc = "idle"
    /\ outbox' = [e \in Events |-> IF Stuck(outbox[e]) THEN Released(outbox[e])
                                   ELSE outbox[e]]
    /\ notifier' = [notifier EXCEPT ![n].pc = "released"]
    /\ UNCHANGED <<delivery, plain, received, faults>>

DueEvents == {e \in Events : outbox[e].status \in WaitingStatus /\ outbox[e].due}

\* The rows one claim takes: all that are due, or a full batch of them.
ClaimableBatch(rows) ==
    /\ rows \subseteq DueEvents
    /\ Cardinality(rows) <= BatchSize
    /\ rows = DueEvents \/ Cardinality(rows) = BatchSize

ClaimRows(rows) ==
    outbox' = [e \in Events |->
        IF e \notin rows THEN outbox[e]
        ELSE [status |-> "processing", attempts |-> outbox[e].attempts + 1,
              due |-> FALSE, stale |-> FALSE]]

Claim(n) ==
    /\ notifier[n].pc = "released"
    /\ \E rows \in SUBSET DueEvents :
         /\ ClaimableBatch(rows)
         /\ ClaimRows(rows)
         /\ notifier' = [notifier EXCEPT
              ![n].pc = IF rows = {} THEN "idle" ELSE "batch",
              ![n].batch = [e \in Events |-> IF e \in rows THEN outbox'[e].attempts
                                                          ELSE 0]]
    /\ UNCHANGED <<delivery, plain, received, faults>>

\* The claim committed, the notifier sees an error and starts over.
ClaimReplyLost(n) ==
    /\ notifier[n].pc = "released"
    /\ Fault
    /\ \E rows \in SUBSET DueEvents : ClaimableBatch(rows) /\ ClaimRows(rows)
    /\ notifier' = [notifier EXCEPT ![n] = IdleNotifier]
    /\ UNCHANGED <<delivery, plain, received>>

\* Faulty: the walk runs past the last target.
NextTargetPastEnd(m) ==
    IF m.target > Len(Targets)
    THEN [m EXCEPT !.pc = "mark", !.outcome = "ok"]
    ELSE [m EXCEPT !.pc = "target", !.target = @ + 1, !.outcome = "none"]

\* The next target of the item, or the end of a successful item.
NextTarget(m) ==
    IF m.target = Len(Targets)
    THEN [m EXCEPT !.pc = "mark", !.outcome = "ok"]
    ELSE [m EXCEPT !.pc = "target", !.target = @ + 1, !.outcome = "none"]

\* The first error ends the item.
ItemFails(m) == [m EXCEPT !.pc = "mark", !.outcome = "error"]

\* A committed statement may still be answered with an error.
Proceed(n, m) ==
    \E next \in {m, ItemFails(notifier[n])} :
        notifier' = [notifier EXCEPT ![n] = next]

\* Read the event and the rules; the event may be gone or the read fail.
StartItem(n) ==
    /\ notifier[n].pc = "batch"
    /\ \E e \in Events :
         LET m == [notifier[n] EXCEPT !.item = e, !.target = 0] IN
           /\ notifier[n].batch[e] > 0
           /\ \/ /\ outbox[e].status # "deleted"
                 /\ notifier' = [notifier EXCEPT ![n] = NextTarget(m)]
              \/ notifier' = [notifier EXCEPT ![n] = ItemFails(m)]
    /\ UNCHANGED <<outbox, delivery, plain, received, faults>>

-----------------------------------------------------------------------------
(* One target of an item.                                                  *)

AtTarget(n, pc, kind) ==
    /\ notifier[n].pc = pc
    /\ Targets[notifier[n].target] \in kind

EventExists(n) == outbox[notifier[n].item].status # "deleted"
Requested(n) == notifier[n].batch[notifier[n].item]

AddPlainRow(n, status) ==
    LET e == notifier[n].item  t == notifier[n].target IN
      /\ EventExists(n)
      /\ plain' = [plain EXCEPT ![e][t] = @ \cup {<<status, Requested(n)>>}]
      /\ Proceed(n, NextTarget(notifier[n]))
      /\ UNCHANGED <<outbox, delivery, received, faults>>

\* The channel is inactive, missing or of an unknown type.
SkipTarget(n) == AtTarget(n, "target", {"external", "in_app"}) /\ AddPlainRow(n, "skipped")

\* Delivery row and in-app notification in one transaction.
DeliverInApp(n) == AtTarget(n, "target", {"in_app"}) /\ AddPlainRow(n, "sent")

\* Any statement of the item fails without an effect; so does every insert
\* once the event is gone.
StatementFails(n) ==
    /\ notifier[n].pc \in {"target", "sending", "record"}
    /\ notifier' = [notifier EXCEPT ![n] = ItemFails(@)]
    /\ UNCHANGED <<outbox, delivery, plain, received, faults>>

\* Faulty: a row that was sent is sent again by a later attempt.
AlreadyCompleteIgnoringSent(row, requested) == row.attempts >= requested

\* Faulty: an earlier attempt takes the row over from a later one.
AlreadyCompleteIgnoringAttempt(row, requested) == row.status = "sent"

\* external_delivery_start_from_status_and_attempt
AlreadyComplete(row, requested) ==
    row.status = "sent" \/ row.attempts >= requested

\* Insert the row as processing, or take it over for this attempt.
BeginExternal(n) ==
    LET e == notifier[n].item
        t == notifier[n].target
        row == delivery[e][t]
    IN
      /\ AtTarget(n, "target", {"external"})
      /\ EventExists(n)
      /\ \/ /\ row.status # "absent" /\ AlreadyComplete(row, Requested(n))
            /\ Proceed(n, NextTarget(notifier[n]))
            /\ UNCHANGED delivery
         \/ /\ row.status = "absent" \/ ~AlreadyComplete(row, Requested(n))
            /\ Proceed(n, [notifier[n] EXCEPT !.pc = "sending"])
            /\ delivery' = [delivery EXCEPT ![e][t] =
                 [status |-> "processing", attempts |-> Requested(n),
                  transient |-> FALSE]]
      /\ UNCHANGED <<outbox, plain, received, faults>>

\* The provider's answer.  A transient failure may hide an accepted message;
\* a permanent one may be a config or secret that was never sent.
Send(n) ==
    LET e == notifier[n].item  t == notifier[n].target IN
      /\ AtTarget(n, "sending", {"external"})
      /\ \E outcome \in {"sent", "permanent", "transient"} :
           /\ notifier' = [notifier EXCEPT ![n].pc = "record",
                                           ![n].outcome = outcome]
           /\ \/ /\ outcome \in {"sent", "transient"}
                 /\ received' = [received EXCEPT ![e][t] = @ + 1]
              \/ outcome \in {"permanent", "transient"} /\ UNCHANGED received
      /\ UNCHANGED <<outbox, delivery, plain, faults>>

\* Faulty: the row is updated by its id alone.
StillMineUnguarded(row, attempt) == row.status # "absent"

\* The WHERE clause of both delivery updates.
StillMine(row, attempt) == row.status = "processing" /\ row.attempts = attempt

\* Faulty: a transient failure does not fail the item.
ItemAlwaysContinues(outcome) == outcome \in {"sent", "permanent", "transient"}

\* external_send_outcome_result
ItemContinues(outcome) == outcome \in {"sent", "permanent"}

RecordOutcome(n) ==
    LET e == notifier[n].item
        t == notifier[n].target
        outcome == notifier[n].outcome
    IN
      /\ AtTarget(n, "record", {"external"})
      /\ StillMine(delivery[e][t], Requested(n))
      /\ delivery' = [delivery EXCEPT
           ![e][t].status = IF outcome = "sent" THEN "sent" ELSE "failed",
           ![e][t].transient = (outcome = "transient")]
      /\ Proceed(n, IF ItemContinues(outcome) THEN NextTarget(notifier[n])
                    ELSE ItemFails(notifier[n]))
      /\ UNCHANGED <<outbox, plain, received, faults>>

-----------------------------------------------------------------------------
(* The end of an item.                                                     *)

ShouldFail(attempt) == attempt >= MaxAttempts

\* The three updates are guarded by status = 'processing' and nothing else.
MarkUpdate(n) ==
    LET e == notifier[n].item IN
      /\ outbox[e].status = "processing"
      /\ outbox' = [outbox EXCEPT
           ![e].status = IF notifier[n].outcome = "ok" THEN "delivered"
                         ELSE IF ShouldFail(Requested(n)) THEN "failed"
                         ELSE "retryable",
           ![e].stale = FALSE]

MarkItem(n) ==
    LET rest == [notifier[n].batch EXCEPT ![notifier[n].item] = 0] IN
      /\ notifier[n].pc = "mark"
      /\ MarkUpdate(n)
      /\ notifier' = [notifier EXCEPT ![n] =
           IF rest = EmptyBatch THEN IdleNotifier
           ELSE [IdleNotifier EXCEPT !.pc = "batch", !.batch = rest]]
      /\ UNCHANGED <<delivery, plain, received, faults>>

\* No row matched: the error ends the batch, its other rows stay processing.
MarkMisses(n) ==
    /\ notifier[n].pc = "mark"
    /\ outbox[notifier[n].item].status # "processing"
    /\ notifier' = [notifier EXCEPT ![n] = IdleNotifier]
    /\ UNCHANGED <<outbox, delivery, plain, received, faults>>

\* So does a database error, with the update committed or not.
MarkFails(n) ==
    /\ notifier[n].pc = "mark"
    /\ Fault
    /\ MarkUpdate(n) \/ UNCHANGED outbox
    /\ notifier' = [notifier EXCEPT ![n] = IdleNotifier]
    /\ UNCHANGED <<delivery, plain, received>>

\* The process dies and is started again.
Crash(n) ==
    /\ notifier[n].pc # "idle"
    /\ Fault
    /\ notifier' = [notifier EXCEPT ![n] = IdleNotifier]
    /\ UNCHANGED <<outbox, delivery, plain, received>>

-----------------------------------------------------------------------------
NotifierStep(n) ==
    \/ ReleaseStale(n) \/ Claim(n) \/ StartItem(n)
    \/ SkipTarget(n) \/ DeliverInApp(n)
    \/ BeginExternal(n) \/ Send(n) \/ RecordOutcome(n) \/ StatementFails(n)
    \/ MarkItem(n) \/ MarkMisses(n)

Next ==
    \/ \E e \in Events : \/ InsertEvent(e) \/ DeleteEvent(e)
                         \/ BackoffElapses(e) \/ ManualRetry(e)
                         \/ AbandonedLockAges(e) \/ HeldLockAges(e)
    \/ \E n \in Notifiers : \/ NotifierStep(n)
                            \/ ClaimReplyLost(n) \/ MarkFails(n) \/ Crash(n)

Spec == Init /\ [][Next]_vars

\* Every notifier is restarted and keeps looping, and time passes; nothing is
\* promised of channels, providers or the database's health.
Fairness ==
    /\ \A n \in Notifiers : WF_vars(NotifierStep(n))
    /\ \A e \in Events : WF_vars(BackoffElapses(e)) /\ WF_vars(AbandonedLockAges(e))

FairSpec == Spec /\ Fairness

-----------------------------------------------------------------------------
(* Properties.                                                             *)

\* Every row and every notifier's memory has its type.
TypeOK ==
    /\ outbox \in [Events -> OutboxRow]
    /\ delivery \in [Events -> [TargetIds -> DeliveryRow]]
    /\ plain \in [Events -> [TargetIds -> SUBSET PlainRow]]
    /\ received \in [Events -> [TargetIds -> Nat]]
    /\ notifier \in [Notifiers -> NotifierState]
    /\ faults \in 0..MaxFaults

\* Nothing more is owed to target t of event e after the given attempt: it
\* was sent, failed for good, or was delivered in-app or skipped.
Settled(e, t, attempt) ==
    \/ delivery[e][t].status = "sent"
    \/ delivery[e][t].status = "failed" /\ ~delivery[e][t].transient
    \/ <<"skipped", attempt>> \in plain[e][t]
    \/ <<"sent", attempt>> \in plain[e][t]

\* An event is delivered only when its last attempt settled every target: no
\* transient failure or half-made delivery is forgotten.
DeliveredMeansSettled ==
    \A e \in Events :
        outbox[e].status = "delivered" =>
            \A t \in TargetIds : Settled(e, t, outbox[e].attempts)

\* The channel design: an event is delivered after each of its targets was,
\* in one attempt or another, sent, skipped or failed for good.
DeliveredOwesNothing ==
    \A e \in Events :
        outbox[e].status = "delivered" =>
            \A t \in TargetIds :
                \E attempt \in 1..outbox[e].attempts : Settled(e, t, attempt)

\* Once a delivery is recorded as sent, no later attempt, retry or restart
\* takes the row over or makes the provider accept the message again.
SentIsNeverResent ==
    [][\A e \in Events, t \in TargetIds :
         delivery[e][t].status = "sent" =>
             /\ received'[e][t] = received[e][t]
             /\ outbox'[e].status # "deleted" => delivery'[e][t].status = "sent"]_vars

\* Retries duplicate a message at most once per attempt, and a delivery row
\* never runs ahead of the outbox or falls behind the messages sent.
SendsWithinAttempts ==
    \A e \in Events, t \in TargetIds :
        outbox[e].status # "deleted" =>
            /\ received[e][t] <= delivery[e][t].attempts
            /\ delivery[e][t].attempts <= outbox[e].attempts

\* What has ended has ended rightly and for good, whoever of the present and
\* former notifiers of an event finishes it, late and in what order: a
\* delivery recorded as sent is never taken back, an event is given up only
\* once all its attempts are used, and a delivered event is never processed
\* again, not even when the API asks for a retry.
EndsAreFinal ==
    [][\A e \in Events :
         /\ \A t \in TargetIds :
              delivery[e][t].status = "sent" /\ outbox'[e].status # "deleted" =>
                  delivery'[e][t] = delivery[e][t]
         /\ outbox'[e].status = "failed" => outbox'[e].attempts >= MaxAttempts
         /\ outbox[e].status = "delivered" =>
              outbox'[e].status \in {"delivered", "deleted"}]_vars

\* When faults stop, every event is finally delivered, given up or deleted.
EveryEventEnds ==
    \A e \in Events :
        outbox[e].status # "absent" ~> outbox[e].status \in FinalStatus
=============================================================================
