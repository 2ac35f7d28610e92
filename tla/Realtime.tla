------------------------------ MODULE Realtime ------------------------------
(***************************************************************************)
(* In-app notifications on their way to the websockets: Postgres notifies  *)
(* the listener while it is connected, the hub broadcasts to the channel   *)
(* of the tenant, a channel keeps its last messages, and each socket reads *)
(* its channel at its own pace.  External: NOTIFY reaches a connection in  *)
(* order and is not kept for a listener that is away; a channel without    *)
(* receivers keeps nothing.                                                *)
(***************************************************************************)
EXTENDS Naturals, FiniteSets, Sequences, FiniteSetsExt

CONSTANTS
    Tenants,
    Sockets,        \* websocket connections, each opened once
    TenantOf,       \* the tenant whose token a socket was opened with
    MaxPosted,      \* bound on the notifications
    MaxFaults,      \* bound on disconnects of the listener
    BufferSize      \* of a broadcast channel

Assumptions ==
    /\ TenantOf \in [Sockets -> Tenants]
    /\ BufferSize \in Nat \ {0} /\ MaxPosted \in Nat /\ MaxFaults \in Nat

VARIABLES
    posted,     \* the tenant of each notification, in order
    listener,   \* run_realtime_notification_listener
    wire,       \* notifications on the listener's connection
    channel,    \* RealtimeHub: messages broadcast, by tenant
    socket,     \* state and the next position it reads in its channel
    shutdown,
    faults,
    received,   \* history: what each socket was sent
    missed      \* history: what the disconnected listener or a lag made it miss

vars == <<posted, listener, wire, channel, socket, shutdown, faults, received, missed>>

Init ==
    /\ posted = <<>>
    /\ listener = "away" /\ wire = <<>>
    /\ channel = [t \in Tenants |-> <<>>]
    /\ socket = [s \in Sockets |-> [state |-> "new", next |-> 1]]
    /\ shutdown = FALSE /\ faults = 0
    /\ received = [s \in Sockets |-> <<>>]
    /\ missed = [s \in Sockets |-> {}]

Open(t) == {s \in Sockets : TenantOf[s] = t /\ socket[s].state = "open"}

\* A notification row is inserted; pg_notify has its JSON.
Post(t) ==
    /\ Len(posted) < MaxPosted
    /\ posted' = Append(posted, t)
    /\ IF listener = "listening"
       THEN wire' = Append(wire, Len(posted) + 1) /\ UNCHANGED missed
       ELSE /\ missed' = [s \in Sockets |->
                 IF s \in Open(t) THEN missed[s] \cup {Len(posted) + 1} ELSE missed[s]]
            /\ UNCHANGED wire
    /\ UNCHANGED <<listener, channel, socket, shutdown, faults, received>>

\* The outer loop: connect and LISTEN, or a second's sleep; shutdown_aware_await
\* and shutdown_aware_sleep end it.
Connect ==
    /\ listener = "away" /\ ~shutdown
    /\ listener' = "listening"
    /\ UNCHANGED <<posted, wire, channel, socket, shutdown, faults, received, missed>>

LostWith(t) == {n \in {wire[i] : i \in DOMAIN wire} : posted[n] = t}
Disconnect ==
    /\ listener = "listening" /\ faults < MaxFaults
    /\ faults' = faults + 1
    /\ listener' = "away" /\ wire' = <<>>
    /\ missed' = [s \in Sockets |->
         IF s \in Open(TenantOf[s]) THEN missed[s] \cup LostWith(TenantOf[s]) ELSE missed[s]]
    /\ UNCHANGED <<posted, channel, socket, shutdown, received>>

RequestShutdown ==
    /\ ~shutdown /\ shutdown' = TRUE
    /\ UNCHANGED <<posted, listener, wire, channel, socket, faults, received, missed>>
ListenerEnds ==
    /\ shutdown /\ listener # "ended"
    /\ listener' = "ended" /\ wire' = <<>>
    /\ missed' = [s \in Sockets |->
         IF s \in Open(TenantOf[s]) THEN missed[s] \cup LostWith(TenantOf[s]) ELSE missed[s]]
    /\ UNCHANGED <<posted, channel, socket, shutdown, faults, received>>

\* broadcast_async, to the tenant of the notification.
Broadcast(n) ==
    IF Open(posted[n]) = {} THEN channel
    ELSE [channel EXCEPT ![posted[n]] = Append(@, n)]
Listen ==
    /\ listener = "listening" /\ wire # <<>> /\ ~shutdown
    /\ channel' = Broadcast(Head(wire))
    /\ wire' = Tail(wire)
    /\ UNCHANGED <<posted, listener, socket, shutdown, faults, received, missed>>

\* subscribe_async starts behind the messages that are there.
Subscribe(s) ==
    /\ socket[s].state = "new"
    /\ socket' = [socket EXCEPT ![s] = [state |-> "open", next |-> Len(channel[TenantOf[s]]) + 1]]
    /\ UNCHANGED <<posted, listener, wire, channel, shutdown, faults, received, missed>>

\* recv_realtime_message: a receiver that lags goes on with the oldest message kept.
\* A faulty one: with the newest.
ResumeNewest(s) == IF socket[s].next + BufferSize <= Len(channel[TenantOf[s]])
                   THEN Len(channel[TenantOf[s]]) ELSE socket[s].next
Oldest(s) == Max({1, Len(channel[TenantOf[s]]) - BufferSize + 1})
Resume(s) == Max({socket[s].next, Oldest(s)})
Send(s) ==
    LET messages == channel[TenantOf[s]]
    IN /\ socket[s].state = "open" /\ socket[s].next <= Len(messages)
       /\ socket' = [socket EXCEPT ![s].next = Resume(s) + 1]
       /\ received' = [received EXCEPT ![s] = Append(@, messages[Resume(s)])]
       /\ missed' = [missed EXCEPT ![s] =
            @ \cup {messages[i] : i \in socket[s].next..(Oldest(s) - 1)}]
       /\ UNCHANGED <<posted, listener, wire, channel, shutdown, faults>>

Close(s) ==
    /\ socket[s].state = "open"
    /\ socket' = [socket EXCEPT ![s].state = "closed"]
    /\ UNCHANGED <<posted, listener, wire, channel, shutdown, faults, received, missed>>

Next ==
    \/ \E t \in Tenants : Post(t)
    \/ Connect \/ Disconnect \/ Listen \/ RequestShutdown \/ ListenerEnds
    \/ \E s \in Sockets : Subscribe(s) \/ Send(s) \/ Close(s)

Fairness == /\ WF_vars(Connect) /\ WF_vars(Listen) /\ WF_vars(ListenerEnds)
            /\ \A s \in Sockets : WF_vars(Send(s))

Spec == Init /\ [][Next]_vars /\ Fairness

-----------------------------------------------------------------------------
TypeOK ==
    /\ listener \in {"away", "listening", "ended"}
    /\ \A s \in Sockets : socket[s].next \in 1..(Len(channel[TenantOf[s]]) + 1)

\* What a socket was sent are notifications of its tenant in their order, each
\* once; between two of them it lacks only what a lag or the listener lost.
SocketStory ==
    \A s \in Sockets :
      LET got == {received[s][i] : i \in DOMAIN received[s]}
      IN /\ \A i, j \in DOMAIN received[s] : i < j => received[s][i] < received[s][j]
         /\ \A n \in got : posted[n] = TenantOf[s]
         /\ \A n \in DOMAIN posted :
              /\ posted[n] = TenantOf[s]
              /\ \E m, k \in got : m < n /\ n < k
              => n \in got \cup missed[s]

\* An open socket receives or has missed in the end what was posted; the listener
\* comes back after a disconnect and ends after a shutdown.
Owed ==
    \/ shutdown /\ listener # "ended"
    \/ ~shutdown /\ listener = "away"
    \/ \E s \in Sockets : socket[s].state = "open" /\ socket[s].next <= Len(channel[TenantOf[s]])
    \/ ~shutdown /\ listener = "listening" /\ wire # <<>>
=============================================================================
