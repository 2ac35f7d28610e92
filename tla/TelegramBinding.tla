--------------------------- MODULE TelegramBinding ---------------------------
(***************************************************************************)
(* Binding a Telegram chat: the console creates a request with a code, the *)
(* chat sends the code to the bot, and whoever reads that update binds the *)
(* request and sends one confirmation.  Updates are read by pollers, which *)
(* share an offset and a lock of 30 seconds in telegram_bot_update_offsets,*)
(* or pushed to the webhook.  One active, verified bot; external: Telegram *)
(* answers getUpdates with all updates after the offset.                   *)
(***************************************************************************)
EXTENDS Naturals, FiniteSets, Sequences, FiniteSetsExt

CONSTANTS
    Requests,       \* telegram_binding_requests, each with its own codes
    Pollers,        \* runs of run_telegram_update_poller, restarted when they end
    Hooks,          \* deliveries to telegram_webhook that may be in flight
    MaxUpdates,     \* bound on the updates, each of a chat of its own
    MaxFaults,      \* bound on errors and crashes
    None

Assumptions == /\ None \notin Requests \cup Pollers /\ Pollers \cap Hooks = {}
               /\ MaxUpdates \in Nat /\ MaxFaults \in Nat

VARIABLES
    request,        \* status, whether it is due to expire, and the chat bound
    posts,          \* the request whose code each update carries, or None
    offset,         \* last_update_id
    lock,           \* locked_at: its poller, and whether 30 seconds are over
    handler,        \* what each poller and webhook call is at
    faults,
    handled,        \* history: updates that were processed
    confirmations   \* history: chats sent a confirmation, per request

vars == <<request, posts, offset, lock, handler, faults, handled, confirmations>>

Handlers == Pollers \cup Hooks
Free == [owner |-> None, stale |-> FALSE]
Idle == [pc |-> "idle", from |-> 0, updates |-> <<>>, bound |-> None]

Init ==
    /\ request = [r \in Requests |-> [status |-> "none", due |-> FALSE, chat |-> 0]]
    /\ posts = <<>>
    /\ offset = 0 /\ lock = Free
    /\ handler = [h \in Handlers |-> Idle]
    /\ faults = 0
    /\ handled = {}
    /\ confirmations = [r \in Requests |-> <<>>]

\* create_binding_request, cancel_binding_request, and the expiry a reader of the
\* request finds due.
Create(r) ==
    /\ request[r].status = "none"
    /\ request' = [request EXCEPT ![r].status = "pending"]
    /\ UNCHANGED <<posts, offset, lock, handler, faults, handled, confirmations>>
Cancel(r) ==
    /\ request[r].status = "pending"
    /\ request' = [request EXCEPT ![r].status = "cancelled"]
    /\ UNCHANGED <<posts, offset, lock, handler, faults, handled, confirmations>>
FallsDue(r) ==
    /\ request[r].status = "pending" /\ ~request[r].due
    /\ request' = [request EXCEPT ![r].due = TRUE]
    /\ UNCHANGED <<posts, offset, lock, handler, faults, handled, confirmations>>
Expire(r) ==
    /\ request[r].status = "pending" /\ request[r].due
    /\ request' = [request EXCEPT ![r].status = "expired"]
    /\ UNCHANGED <<posts, offset, lock, handler, faults, handled, confirmations>>

\* A chat writes to the bot, perhaps a code extract_binding_code finds.
Post ==
    /\ Len(posts) < MaxUpdates
    /\ \E r \in Requests \cup {None} : posts' = Append(posts, r)
    /\ UNCHANGED <<request, offset, lock, handler, faults, handled, confirmations>>

\* claim_telegram_update_offset.
Claimable == lock.owner = None \/ lock.stale
Claim(p) ==
    /\ handler[p].pc = "idle" /\ Claimable
    /\ lock' = [owner |-> p, stale |-> FALSE]
    /\ handler' = [handler EXCEPT ![p] = [Idle EXCEPT !.pc = "fetch", !.from = offset]]
    /\ UNCHANGED <<request, posts, offset, faults, handled, confirmations>>

LockAges ==
    /\ lock.owner # None /\ ~lock.stale
    /\ lock' = [lock EXCEPT !.stale = TRUE]
    /\ UNCHANGED <<request, posts, offset, handler, faults, handled, confirmations>>

\* get_telegram_updates.
Next1(updates) == IF updates = <<>> THEN "release" ELSE "process"
Fetch(p) ==
    LET updates == [i \in 1..(Len(posts) - handler[p].from) |-> handler[p].from + i]
    IN /\ handler[p].pc = "fetch"
       /\ handler' = [handler EXCEPT ![p].pc = Next1(updates), ![p].updates = updates]
       /\ UNCHANGED <<request, posts, offset, lock, faults, handled, confirmations>>
FetchFails(p) ==
    /\ handler[p].pc = "fetch" /\ faults < MaxFaults
    /\ faults' = faults + 1
    /\ handler' = [handler EXCEPT ![p].pc = "release"]
    /\ UNCHANGED <<request, posts, offset, lock, handled, confirmations>>

\* telegram_webhook: an update is pushed once or again.
Receive(h) ==
    /\ handler[h].pc = "idle"
    /\ \E u \in 1..Len(posts) :
         handler' = [handler EXCEPT ![h] = [Idle EXCEPT !.pc = "process", !.updates = <<u>>]]
    /\ UNCHANGED <<request, posts, offset, lock, faults, handled, confirmations>>

\* process_telegram_binding_update: BIND_PENDING_REQUEST_QUERY, one confirmation,
\* and its error where it is not sent.
\* A faulty bind: the status of the request is not looked at.
BindableAlways(r) == r # None /\ request[r].status # "none" /\ ~request[r].due
Bindable(r) == r # None /\ request[r].status = "pending" /\ ~request[r].due
Process(h) ==
    LET u == Head(handler[h].updates)
        r == posts[u]
    IN /\ handler[h].pc = "process"
       /\ IF Bindable(r)
          THEN /\ request' = [request EXCEPT ![r].status = "bound", ![r].chat = u]
               /\ handler' = [handler EXCEPT ![h].pc = "confirm", ![h].bound = r]
          ELSE handler' = [handler EXCEPT ![h].pc = "upsert"] /\ UNCHANGED request
       /\ handled' = handled \cup {u}
       /\ UNCHANGED <<posts, offset, lock, faults, confirmations>>
Confirm(h) ==
    LET r == handler[h].bound
    IN /\ handler[h].pc = "confirm"
       /\ handler' = [handler EXCEPT ![h].pc = "upsert", ![h].bound = None]
       /\ \/ confirmations' = [confirmations EXCEPT ![r] = Append(@, Head(handler[h].updates))]
          \/ UNCHANGED confirmations
       /\ UNCHANGED <<request, posts, offset, lock, faults, handled>>

\* upsert_telegram_update_offset; a webhook call is over.
\* A faulty upsert: of the update to ask for next.
GreatestNext(u) == Max({offset, u + 1})
Greatest(u) == Max({offset, u})
Upsert(p) ==
    LET u == Head(handler[p].updates)
        rest == Tail(handler[p].updates)
    IN /\ handler[p].pc = "upsert"
       /\ offset' = Greatest(u)
       /\ handler' = [handler EXCEPT ![p].pc = Next1(rest), ![p].updates = rest]
       /\ UNCHANGED <<request, posts, lock, faults, handled, confirmations>>
Answer(h) ==
    /\ handler[h].pc = "upsert"
    /\ handler' = [handler EXCEPT ![h] = Idle]
    /\ UNCHANGED <<request, posts, offset, lock, faults, handled, confirmations>>

\* release_telegram_update_offset_lock with the locked_at of the claim.
Release(p) ==
    /\ handler[p].pc = "release"
    /\ lock' = IF lock.owner = p THEN Free ELSE lock
    /\ handler' = [handler EXCEPT ![p] = Idle]
    /\ UNCHANGED <<request, posts, offset, faults, handled, confirmations>>

\* A database error or a crash ends a poller with its lock taken, or a call; a
\* service manager starts the poller again.
Ends(h) ==
    /\ handler[h].pc # "idle" /\ faults < MaxFaults
    /\ faults' = faults + 1
    /\ handler' = [handler EXCEPT ![h] = Idle]
    /\ UNCHANGED <<request, posts, offset, lock, handled, confirmations>>

PollStep(p) == Claim(p) \/ Fetch(p) \/ Process(p) \/ Confirm(p) \/ Upsert(p) \/ Release(p)
HookStep(h) == Receive(h) \/ Process(h) \/ Confirm(h) \/ Answer(h)

Next ==
    \/ \E r \in Requests : Create(r) \/ Cancel(r) \/ FallsDue(r) \/ Expire(r)
    \/ Post \/ LockAges
    \/ \E p \in Pollers : PollStep(p) \/ FetchFails(p)
    \/ \E h \in Hooks : HookStep(h)
    \/ \E h \in Handlers : Ends(h)

Fairness == WF_vars(LockAges) /\ \A p \in Pollers : WF_vars(PollStep(p))

Spec == Init /\ [][Next]_vars /\ Fairness

-----------------------------------------------------------------------------
TypeOK ==
    /\ request \in [Requests -> [status : {"none", "pending", "bound", "cancelled", "expired"},
                                 due : BOOLEAN, chat : 0..MaxUpdates]]
    /\ offset \in 0..Len(posts)
    /\ lock.owner \in Pollers \cup {None}

\* The offset passes no update that was not processed, whichever pollers overlap
\* or end between a bind and their offset.
OffsetPassesNoUpdate == 1..offset \subseteq handled

\* A request is confirmed to one chat, once: the one it is bound to.
ConfirmedOnce ==
    \A r \in Requests : confirmations[r] # <<>> =>
        request[r].status = "bound" /\ confirmations[r] = <<request[r].chat>>

UpdatesBindOnce == OffsetPassesNoUpdate /\ ConfirmedOnce

\* Every update is processed in the end, though pollers die with the lock taken.
Owed == handled # 1..Len(posts)
=============================================================================
