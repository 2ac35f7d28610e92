------------------------ MODULE TelegramBindingProofs ------------------------
(***************************************************************************)
(* Whichever pollers overlap, end with the lock taken or lose it: the      *)
(* offset passes no update that was not processed, and a request is        *)
(* confirmed once, to the chat it is bound to.                             *)
(*                                                                         *)
(* The offset is safe because a poller reads the updates after an offset   *)
(* it saw, in order, and stores each only when it has processed all before *)
(* it: PollOk says that of its list.  That needs neither the lock nor its  *)
(* age.  A request is confirmed once because only the statement that binds *)
(* it leads to a confirmation, and nothing leads from "bound" back.        *)
(***************************************************************************)
EXTENDS TelegramBinding, TLAPS

Stages == {"idle", "fetch", "process", "confirm", "upsert", "release"}
Work == [pc : Stages, from : Nat, updates : Seq(Nat), bound : Requests \cup {None}]
Bindings == [status : {"none", "pending", "bound", "cancelled", "expired"},
             due : BOOLEAN, chat : Nat]

Types ==
    /\ request \in [Requests -> Bindings]
    /\ posts \in Seq(Requests \cup {None}) /\ Len(posts) <= MaxUpdates
    /\ offset \in Nat /\ offset <= Len(posts)
    /\ lock \in [owner : Pollers \cup {None}, stale : BOOLEAN]
    /\ handler \in [Handlers -> Work]
    /\ confirmations \in [Requests -> Seq(Nat)]
    /\ \A r \in Requests : request[r].chat <= MaxUpdates

\* What a handler m is at, when there are n updates.
ReadOk(m, n) ==
    /\ \A i \in 1..Len(m.updates) : m.updates[i] \in 1..n
    /\ m.pc \in {"process", "confirm", "upsert"} => m.updates # <<>>

\* What a poller m is at, when there are n updates and "done" are processed.
PollOk(m, n, done) ==
    /\ m.from <= n /\ 1..m.from \subseteq done
    /\ \A i \in 1..Len(m.updates) - 1 : m.updates[i + 1] = m.updates[i] + 1
    /\ m.pc = "process" => 1..(m.updates[1] - 1) \subseteq done
    /\ m.pc \in {"confirm", "upsert"} => 1..m.updates[1] \subseteq done

OffsetInv ==
    /\ Types
    /\ OffsetPassesNoUpdate
    /\ \A h \in Handlers : ReadOk(handler[h], Len(posts))
    /\ \A p \in Pollers : PollOk(handler[p], Len(posts), handled)

\* Who is about to confirm a request has just bound it, alone.
Confirming(h, r) == handler[h].pc = "confirm" /\ handler[h].bound = r
ConfirmInv ==
    /\ \A r \in Requests : confirmations[r] # <<>> =>
           request[r].status = "bound" /\ confirmations[r] = <<request[r].chat>>
    /\ \A h \in Handlers : handler[h].pc = "confirm" => handler[h].bound \in Requests
    /\ \A h \in Handlers, r \in Requests : Confirming(h, r) =>
           /\ request[r].status = "bound" /\ request[r].chat = handler[h].updates[1]
           /\ confirmations[r] = <<>>
    /\ \A h, k \in Handlers, r \in Requests : Confirming(h, r) /\ Confirming(k, r) => h = k

-----------------------------------------------------------------------------
LEMMA GreatestIsGreater ==
    ASSUME NEW u \in Nat, offset \in Nat
    PROVE  /\ Greatest(u) \in Nat /\ Greatest(u) >= u /\ Greatest(u) >= offset
           /\ Greatest(u) = u \/ Greatest(u) = offset
<1>1. CASE offset >= u
  <2>1. offset \in {offset, u} /\ \A y \in {offset, u} : offset >= y
    BY <1>1
  <2>2. \A x \in {offset, u} : (\A y \in {offset, u} : x >= y) => x = offset
    BY <1>1
  <2>3. Max({offset, u}) \in {offset, u} /\ \A y \in {offset, u} : Max({offset, u}) >= y
    BY <2>1 DEF Max
  <2>4. QED  BY <1>1, <2>2, <2>3 DEF Greatest
<1>2. CASE ~(offset >= u)
  <2>1. u \in {offset, u} /\ \A y \in {offset, u} : u >= y
    BY <1>2
  <2>2. Max({offset, u}) \in {offset, u} /\ \A y \in {offset, u} : Max({offset, u}) >= y
    BY <2>1 DEF Max
  <2>3. QED  BY <1>2, <2>2 DEF Greatest
<1>3. QED  BY <1>1, <1>2

\* More updates and more processed ones are no matter to a handler.
LEMMA MoreIsNoMatter ==
    ASSUME NEW m \in Work, NEW n \in Nat, NEW n2 \in Nat, n <= n2,
           NEW done, NEW done2, done \subseteq done2
    PROVE  /\ ReadOk(m, n) => ReadOk(m, n2)
           /\ PollOk(m, n, done) => PollOk(m, n2, done2)
<1>1. ReadOk(m, n) => ReadOk(m, n2)
  BY DEF ReadOk, Work
<1>2. PollOk(m, n, done) => PollOk(m, n2, done2)
  BY DEF PollOk, Work
<1>3. QED  BY <1>1, <1>2

LEMMA IdleIsOk ==
    ASSUME Assumptions, NEW n \in Nat, NEW done
    PROVE  Idle \in Work /\ ReadOk(Idle, n) /\ PollOk(Idle, n, done)
<1>1. Idle \in Work
  BY DEF Idle, Work, Stages
<1>2. Len(Idle.updates) = 0 /\ Idle.pc = "idle" /\ Idle.from = 0
  BY DEF Idle
<1>3. QED  BY <1>1, <1>2 DEF ReadOk, PollOk

\* What the steps of a handler h, which becomes m, have in common.
HandlerMoves(h, m) ==
    /\ handler' = [handler EXCEPT ![h] = m]
    /\ handled \subseteq handled' /\ UNCHANGED posts

LEMMA OneHandlerMoves ==
    ASSUME OffsetInv, NEW h \in Handlers, NEW m \in Work, HandlerMoves(h, m),
           ReadOk(m, Len(posts)), h \in Pollers => PollOk(m, Len(posts), handled')
    PROVE  /\ handler' \in [Handlers -> Work]
           /\ \A k \in Handlers : ReadOk(handler'[k], Len(posts'))
           /\ \A p \in Pollers : PollOk(handler'[p], Len(posts'), handled')
<1>0. /\ handler \in [Handlers -> Work] /\ Len(posts) \in Nat /\ posts' = posts
      /\ handler' = [handler EXCEPT ![h] = m] /\ handled \subseteq handled'
      /\ Pollers \subseteq Handlers
  BY DEF OffsetInv, Types, HandlerMoves, Handlers
<1>1. handler' \in [Handlers -> Work]
  BY <1>0
<1>2. ASSUME NEW k \in Handlers
      PROVE  /\ ReadOk(handler'[k], Len(posts))
             /\ k \in Pollers => PollOk(handler'[k], Len(posts), handled')
  <2>1. CASE k = h
    <3>1. handler'[k] = m  BY <1>0, <2>1
    <3>2. QED  BY <2>1, <3>1
  <2>2. CASE k # h
    <3>1. handler'[k] = handler[k] /\ handler[k] \in Work  BY <1>0, <2>2
    <3>2. ReadOk(handler[k], Len(posts))
      BY DEF OffsetInv
    <3>3. k \in Pollers => PollOk(handler[k], Len(posts), handled)
      BY DEF OffsetInv
    <3>4. k \in Pollers => PollOk(handler[k], Len(posts), handled')
      BY <1>0, <3>1, <3>3, MoreIsNoMatter
    <3>5. QED  BY <3>1, <3>2, <3>4
  <2>3. QED  BY <2>1, <2>2
<1>3. QED  BY <1>0, <1>1, <1>2

\* A step that moves one handler and leaves request, offset, lock and confirmations.
LEMMA ReadingKeeps ==
    ASSUME OffsetInv, NEW h \in Handlers, NEW m \in Work, HandlerMoves(h, m),
           ReadOk(m, Len(posts)), h \in Pollers => PollOk(m, Len(posts), handled'),
           UNCHANGED <<offset, confirmations>>,
           request' \in [Requests -> Bindings],
           \A r \in Requests : request'[r].chat <= MaxUpdates,
           lock' \in [owner : Pollers \cup {None}, stale : BOOLEAN]
    PROVE  OffsetInv'
<1>1. /\ handler' \in [Handlers -> Work]
      /\ \A k \in Handlers : ReadOk(handler'[k], Len(posts'))
      /\ \A p \in Pollers : PollOk(handler'[p], Len(posts'), handled')
  BY OneHandlerMoves
<1>2. Types'
  BY <1>1 DEF OffsetInv, Types, HandlerMoves
<1>3. OffsetPassesNoUpdate'
  BY DEF OffsetInv, OffsetPassesNoUpdate, HandlerMoves
<1>4. QED  BY <1>1, <1>2, <1>3 DEF OffsetInv

-----------------------------------------------------------------------------
LEMMA OffsetInit ==
    ASSUME Assumptions, Init
    PROVE  OffsetInv
<1>1. posts = <<>> /\ Len(posts) = 0 /\ posts \in Seq(Requests \cup {None})
  BY DEF Init
<1>2. \A h \in Handlers : handler[h] = Idle
  BY DEF Init
<1>3. Types
  <2>1. handler \in [Handlers -> Work]
    BY IdleIsOk DEF Init
  <2>2. lock \in [owner : Pollers \cup {None}, stale : BOOLEAN]
    BY DEF Init, Free
  <2>3. request \in [Requests -> Bindings] /\ \A r \in Requests : request[r].chat <= MaxUpdates
    BY DEF Init, Bindings, Assumptions
  <2>4. confirmations \in [Requests -> Seq(Nat)]
    BY DEF Init
  <2>5. offset \in Nat /\ offset <= Len(posts) /\ Len(posts) <= MaxUpdates
    BY <1>1 DEF Init, Assumptions
  <2>6. QED  BY <1>1, <2>1, <2>2, <2>3, <2>4, <2>5 DEF Types
<1>4. OffsetPassesNoUpdate
  BY DEF Init, OffsetPassesNoUpdate
<1>5. QED  BY <1>1, <1>2, <1>3, <1>4, IdleIsOk DEF OffsetInv, Handlers

\* create_binding_request and what ends a request.
LEMMA RequestKeeps ==
    ASSUME Assumptions, OffsetInv, NEW r \in Requests,
           Create(r) \/ Cancel(r) \/ FallsDue(r) \/ Expire(r)
    PROVE  OffsetInv'
<1>1. UNCHANGED <<posts, offset, lock, handler, handled, confirmations>>
  BY DEF Create, Cancel, FallsDue, Expire
<1>2. PICK b \in Bindings : request' = [request EXCEPT ![r] = b] /\ b.chat = request[r].chat
  <2>0. request[r] \in Bindings /\ request \in [Requests -> Bindings]
    BY DEF OffsetInv, Types
  <2>1. CASE Create(r)
    <3> PICK b : b = [request[r] EXCEPT !.status = "pending"]
      OBVIOUS
    <3>1. b \in Bindings /\ b.chat = request[r].chat
      BY <2>0 DEF Bindings
    <3>2. request' = [request EXCEPT ![r] = b]
      BY <2>1 DEF Create
    <3>3. QED  BY <3>1, <3>2
  <2>2. CASE Cancel(r)
    <3> PICK b : b = [request[r] EXCEPT !.status = "cancelled"]
      OBVIOUS
    <3>1. b \in Bindings /\ b.chat = request[r].chat
      BY <2>0 DEF Bindings
    <3>2. request' = [request EXCEPT ![r] = b]
      BY <2>2 DEF Cancel
    <3>3. QED  BY <3>1, <3>2
  <2>3. CASE FallsDue(r)
    <3> PICK b : b = [request[r] EXCEPT !.due = TRUE]
      OBVIOUS
    <3>1. b \in Bindings /\ b.chat = request[r].chat
      BY <2>0 DEF Bindings
    <3>2. request' = [request EXCEPT ![r] = b]
      BY <2>3 DEF FallsDue
    <3>3. QED  BY <3>1, <3>2
  <2>4. CASE Expire(r)
    <3> PICK b : b = [request[r] EXCEPT !.status = "expired"]
      OBVIOUS
    <3>1. b \in Bindings /\ b.chat = request[r].chat
      BY <2>0 DEF Bindings
    <3>2. request' = [request EXCEPT ![r] = b]
      BY <2>4 DEF Expire
    <3>3. QED  BY <3>1, <3>2
  <2>5. QED  BY <2>1, <2>2, <2>3, <2>4
<1>3. request' \in [Requests -> Bindings] /\ \A q \in Requests : request'[q].chat = request[q].chat
  BY <1>2 DEF OffsetInv, Types
<1>4. Types'
  BY <1>1, <1>3 DEF OffsetInv, Types
<1>5. QED  BY <1>1, <1>4 DEF OffsetInv, OffsetPassesNoUpdate

LEMMA PostKeeps ==
    ASSUME Assumptions, OffsetInv, Post
    PROVE  OffsetInv'
<1>0. UNCHANGED <<request, offset, lock, handler, handled, confirmations>>
  BY DEF Post
<1>1. PICK r \in Requests \cup {None} : posts' = Append(posts, r)
  BY DEF Post
<1>2. /\ posts' \in Seq(Requests \cup {None}) /\ Len(posts') = Len(posts) + 1
      /\ Len(posts) \in Nat /\ Len(posts') <= MaxUpdates
  BY <1>1 DEF OffsetInv, Types, Post, Assumptions
<1>3. Types'
  BY <1>0, <1>2 DEF OffsetInv, Types
<1>4. \A h \in Handlers : handler[h] \in Work
  BY DEF OffsetInv, Types
<1>5. \A h \in Handlers : ReadOk(handler[h], Len(posts'))
  <2>1. ASSUME NEW h \in Handlers  PROVE ReadOk(handler[h], Len(posts'))
    <3>1. ReadOk(handler[h], Len(posts)) /\ Len(posts) <= Len(posts') /\ Len(posts') \in Nat
      BY <1>2 DEF OffsetInv
    <3>2. \A i \in 1..Len(handler[h].updates) : handler[h].updates[i] \in 1..Len(posts')
      BY <3>1, <1>2 DEF ReadOk
    <3>3. QED  BY <3>1, <3>2 DEF ReadOk
  <2>2. QED  BY <2>1
<1>6. \A p \in Pollers : PollOk(handler[p], Len(posts'), handled)
  BY <1>2, <1>4, MoreIsNoMatter DEF OffsetInv, Handlers
<1>7. QED  BY <1>0, <1>3, <1>5, <1>6 DEF OffsetInv, OffsetPassesNoUpdate

LEMMA LockAgesKeeps ==
    ASSUME OffsetInv, LockAges
    PROVE  OffsetInv'
<1>1. Types'
  BY DEF OffsetInv, Types, LockAges
<1>2. QED  BY <1>1 DEF OffsetInv, OffsetPassesNoUpdate, LockAges

\* A poller reads on from the offset it sees.
LEMMA ClaimKeeps ==
    ASSUME Assumptions, OffsetInv, NEW p \in Pollers, Claim(p)
    PROVE  OffsetInv'
<1> PICK m : m = [Idle EXCEPT !.pc = "fetch", !.from = offset]
  OBVIOUS
<1>0. p \in Handlers
  BY DEF Handlers
<1>1. m \in Work /\ m.pc = "fetch" /\ m.from = offset /\ m.updates = <<>> /\ Len(m.updates) = 0
  <2>1. Idle \in Work /\ Idle.updates = <<>> /\ Len(Idle.updates) = 0
    BY IdleIsOk DEF Idle
  <2>2. offset \in Nat
    BY DEF OffsetInv, Types
  <2>3. m \in Work /\ m.pc = "fetch" /\ m.from = offset /\ m.updates = Idle.updates
    BY <2>1, <2>2 DEF Work, Stages
  <2>4. QED  BY <2>1, <2>3
<1>2. HandlerMoves(p, m) /\ handled' = handled /\ UNCHANGED <<offset, confirmations, request>>
  BY DEF Claim, HandlerMoves
<1>3. ReadOk(m, Len(posts))
  BY <1>1 DEF ReadOk
<1>4. PollOk(m, Len(posts), handled')
  BY <1>1, <1>2 DEF PollOk, OffsetInv, Types, OffsetPassesNoUpdate
<1>5. lock' \in [owner : Pollers \cup {None}, stale : BOOLEAN]
  BY DEF Claim
<1>6. request' \in [Requests -> Bindings] /\ \A r \in Requests : request'[r].chat <= MaxUpdates
  BY <1>2 DEF OffsetInv, Types
<1>7. QED  BY <1>0, <1>1, <1>2, <1>3, <1>4, <1>5, <1>6, ReadingKeeps

\* getUpdates lists all updates after the offset read, in order.
LEMMA FetchKeeps ==
    ASSUME Assumptions, OffsetInv, NEW p \in Pollers, Fetch(p)
    PROVE  OffsetInv'
<1> PICK from : from = handler[p].from
  OBVIOUS
<1> PICK updates : updates = [i \in 1..(Len(posts) - from) |-> from + i]
  OBVIOUS
<1> PICK m : m = [handler[p] EXCEPT !.pc = Next1(updates), !.updates = updates]
  OBVIOUS
<1>0. /\ p \in Handlers /\ handler[p] \in Work /\ PollOk(handler[p], Len(posts), handled)
      /\ from \in Nat /\ Len(posts) \in Nat /\ from <= Len(posts) /\ 1..from \subseteq handled
  BY DEF Handlers, OffsetInv, Types, PollOk, Work
<1>1. /\ updates \in Seq(Nat) /\ Len(updates) = Len(posts) - from
      /\ \A i \in 1..Len(updates) : updates[i] = from + i
  <2> PICK n : n = Len(posts) - from
    OBVIOUS
  <2>1. n \in Nat /\ updates = [i \in 1..n |-> from + i]
    BY <1>0
  <2>2. \A i \in 1..n : from + i \in Nat
    BY <1>0, <2>1
  <2>3. updates \in Seq(Nat) /\ Len(updates) = n
    BY <2>1, <2>2
  <2>4. QED  BY <2>1, <2>3
<1>2. /\ m \in Work /\ m.updates = updates /\ m.from = from /\ m.pc = Next1(updates)
      /\ m.pc \in {"release", "process"} /\ (m.pc = "process" => updates # <<>>)
  BY <1>0, <1>1 DEF Work, Stages, Next1
<1>3. HandlerMoves(p, m) /\ handled' = handled /\ UNCHANGED <<offset, confirmations, request, lock>>
  BY DEF Fetch, HandlerMoves
<1>4. ReadOk(m, Len(posts))
  BY <1>0, <1>1, <1>2 DEF ReadOk
<1>5. PollOk(m, Len(posts), handled')
  <2>1. m.pc = "process" => m.updates[1] = from + 1
    BY <1>0, <1>1, <1>2
  <2>2. ASSUME NEW i \in 1..Len(m.updates) - 1
        PROVE  m.updates[i + 1] = m.updates[i] + 1
    <3>1. i \in 1..Len(updates) /\ i + 1 \in 1..Len(updates) /\ i \in Nat
      BY <1>0, <1>1, <1>2
    <3>2. updates[i] = from + i /\ updates[i + 1] = from + (i + 1)
      BY <1>1, <3>1
    <3>3. from + (i + 1) = (from + i) + 1
      BY <1>0, <3>1
    <3>4. QED  BY <1>2, <3>2, <3>3, Zenon
  <2>3. m.pc = "process" => 1..(m.updates[1] - 1) \subseteq handled'
    <3>1. (from + 1) - 1 = from
      BY <1>0
    <3>2. QED  BY <1>0, <1>3, <2>1, <3>1
  <2>4. m.from <= Len(posts) /\ 1..m.from \subseteq handled' /\ m.pc \notin {"confirm", "upsert"}
    BY <1>0, <1>2, <1>3
  <2>5. QED  BY <2>2, <2>3, <2>4 DEF PollOk
<1>6. /\ request' \in [Requests -> Bindings] /\ \A r \in Requests : request'[r].chat <= MaxUpdates
      /\ lock' \in [owner : Pollers \cup {None}, stale : BOOLEAN]
  BY <1>3 DEF OffsetInv, Types
<1>7. QED  BY <1>0, <1>2, <1>3, <1>4, <1>5, <1>6, ReadingKeeps

LEMMA FetchFailsKeeps ==
    ASSUME Assumptions, OffsetInv, NEW p \in Pollers, FetchFails(p)
    PROVE  OffsetInv'
<1> PICK m : m = [handler[p] EXCEPT !.pc = "release"]
  OBVIOUS
<1>0. /\ p \in Handlers /\ handler[p] \in Work /\ PollOk(handler[p], Len(posts), handled)
      /\ ReadOk(handler[p], Len(posts))
  BY DEF Handlers, OffsetInv, Types
<1>1. /\ m \in Work /\ m.updates = handler[p].updates /\ m.from = handler[p].from
      /\ m.pc = "release"
  BY <1>0 DEF Work, Stages
<1>2. HandlerMoves(p, m) /\ handled' = handled /\ UNCHANGED <<offset, confirmations, request, lock>>
  BY DEF FetchFails, HandlerMoves
<1>3. ReadOk(m, Len(posts)) /\ PollOk(m, Len(posts), handled')
  BY <1>0, <1>1, <1>2 DEF ReadOk, PollOk
<1>4. /\ request' \in [Requests -> Bindings] /\ \A r \in Requests : request'[r].chat <= MaxUpdates
      /\ lock' \in [owner : Pollers \cup {None}, stale : BOOLEAN]
  BY <1>2 DEF OffsetInv, Types
<1>5. QED  BY <1>0, <1>1, <1>2, <1>3, <1>4, ReadingKeeps

\* A delivery to the webhook: it stores no offset.
LEMMA ReceiveKeeps ==
    ASSUME Assumptions, OffsetInv, NEW h \in Hooks, Receive(h)
    PROVE  OffsetInv'
<1>1. PICK u \in 1..Len(posts) :
          handler' = [handler EXCEPT ![h] = [Idle EXCEPT !.pc = "process", !.updates = <<u>>]]
  BY DEF Receive
<1> PICK one : one = <<u>>
  OBVIOUS
<1> PICK m : m = [Idle EXCEPT !.pc = "process", !.updates = one]
  OBVIOUS
<1>2. h \in Handlers /\ h \notin Pollers /\ u \in Nat /\ Len(posts) \in Nat
  BY DEF Handlers, Assumptions, OffsetInv, Types
<1>3. one \in Seq(Nat) /\ Len(one) = 1 /\ one[1] = u /\ one # <<>>
  BY <1>2
<1>4. m \in Work /\ m.pc = "process" /\ m.updates = one
  <2>1. Idle \in Work
    BY IdleIsOk
  <2>2. QED  BY <1>3, <2>1 DEF Work, Stages
<1>5. HandlerMoves(h, m) /\ UNCHANGED <<offset, confirmations, request, lock, handled>>
  BY <1>1 DEF Receive, HandlerMoves
<1>6. ReadOk(m, Len(posts))
  BY <1>3, <1>4 DEF ReadOk
<1>7. /\ request' \in [Requests -> Bindings] /\ \A r \in Requests : request'[r].chat <= MaxUpdates
      /\ lock' \in [owner : Pollers \cup {None}, stale : BOOLEAN]
  BY <1>5 DEF OffsetInv, Types
<1>8. QED  BY <1>2, <1>4, <1>5, <1>6, <1>7, ReadingKeeps

\* The update at the head of a list is one of those written.
LEMMA HeadIsAnUpdate ==
    ASSUME Assumptions, OffsetInv, NEW h \in Handlers,
           handler[h].pc \in {"process", "confirm", "upsert"}
    PROVE  /\ handler[h] \in Work /\ Head(handler[h].updates) = handler[h].updates[1]
           /\ handler[h].updates \in Seq(Nat) /\ Len(handler[h].updates) \in Nat \ {0}
           /\ handler[h].updates[1] \in 1..Len(posts) /\ handler[h].updates[1] \in Nat
           /\ Len(posts) \in Nat /\ Len(posts) <= MaxUpdates
           /\ posts[handler[h].updates[1]] \in Requests \cup {None}
<1>1. /\ handler[h] \in Work /\ ReadOk(handler[h], Len(posts))
      /\ posts \in Seq(Requests \cup {None}) /\ Len(posts) \in Nat /\ Len(posts) <= MaxUpdates
  BY DEF OffsetInv, Types
<1>2. handler[h].updates \in Seq(Nat) /\ handler[h].updates # <<>>
  BY <1>1 DEF Work, ReadOk
<1>3. Len(handler[h].updates) \in Nat \ {0} /\ Head(handler[h].updates) = handler[h].updates[1]
  BY <1>2
<1>4. handler[h].updates[1] \in 1..Len(posts)
  BY <1>1, <1>3 DEF ReadOk
<1>5. QED  BY <1>1, <1>2, <1>3, <1>4

LEMMA ProcessKeeps ==
    ASSUME Assumptions, OffsetInv, NEW h \in Handlers, Process(h)
    PROVE  OffsetInv'
<1> PICK u : u = handler[h].updates[1]
  OBVIOUS
<1> PICK r : r = posts[u]
  OBVIOUS
<1>0. /\ handler[h] \in Work /\ Head(handler[h].updates) = u /\ u \in 1..Len(posts) /\ u \in Nat
      /\ r \in Requests \cup {None} /\ u <= MaxUpdates /\ handler[h].pc = "process"
      /\ handler \in [Handlers -> Work]
  BY HeadIsAnUpdate DEF Process, OffsetInv, Types, Assumptions
<1>1. /\ handled' = handled \cup {u} /\ UNCHANGED <<posts, offset, lock, confirmations>>
      /\ \/ /\ Bindable(r)
            /\ request' = [request EXCEPT ![r].status = "bound", ![r].chat = u]
            /\ handler' = [handler EXCEPT ![h].pc = "confirm", ![h].bound = r]
         \/ /\ ~Bindable(r) /\ UNCHANGED request
            /\ handler' = [handler EXCEPT ![h].pc = "upsert"]
  BY <1>0 DEF Process
<1>2. PICK m \in Work : /\ handler' = [handler EXCEPT ![h] = m] /\ m.pc \in {"confirm", "upsert"}
                        /\ m.updates = handler[h].updates /\ m.from = handler[h].from
  <2>1. CASE Bindable(r)
    <3> PICK m : m = [handler[h] EXCEPT !.pc = "confirm", !.bound = r]
      OBVIOUS
    <3>1. /\ m \in Work /\ m.pc \in {"confirm", "upsert"}
          /\ m.updates = handler[h].updates /\ m.from = handler[h].from
      BY <1>0 DEF Work, Stages
    <3>2. handler' = [handler EXCEPT ![h] = m]
      BY <1>0, <1>1, <2>1
    <3>3. QED  BY <3>1, <3>2
  <2>2. CASE ~Bindable(r)
    <3> PICK m : m = [handler[h] EXCEPT !.pc = "upsert"]
      OBVIOUS
    <3>1. /\ m \in Work /\ m.pc \in {"confirm", "upsert"}
          /\ m.updates = handler[h].updates /\ m.from = handler[h].from
      BY <1>0 DEF Work, Stages
    <3>2. handler' = [handler EXCEPT ![h] = m]
      BY <1>0, <1>1, <2>2
    <3>3. QED  BY <3>1, <3>2
  <2>3. QED  BY <2>1, <2>2
<1>3. HandlerMoves(h, m)
  BY <1>1, <1>2 DEF HandlerMoves
<1>4. ReadOk(m, Len(posts))
  BY <1>0, <1>2 DEF OffsetInv, ReadOk
<1>5. ASSUME h \in Pollers  PROVE PollOk(m, Len(posts), handled')
  <2>1. PollOk(handler[h], Len(posts), handled) /\ 1..(u - 1) \subseteq handled
    BY <1>0, <1>5 DEF OffsetInv, PollOk
  <2>2. 1..u \subseteq handled'
    BY <1>0, <1>1, <2>1
  <2>3. QED  BY <1>1, <1>2, <2>1, <2>2 DEF PollOk
<1>6. request' \in [Requests -> Bindings] /\ \A q \in Requests : request'[q].chat <= MaxUpdates
  <2>1. request \in [Requests -> Bindings] /\ \A q \in Requests : request[q].chat <= MaxUpdates
    BY DEF OffsetInv, Types
  <2>2. CASE Bindable(r)
    <3> PICK b : b = [request[r] EXCEPT !.status = "bound", !.chat = u]
      OBVIOUS
    <3>1. r \in Requests
      BY <1>0, <2>2 DEF Bindable
    <3>2. b \in Bindings /\ b.chat = u
      BY <1>0, <2>1, <3>1 DEF Bindings
    <3>3. request' = [request EXCEPT ![r] = b]
      BY <1>1, <2>1, <2>2, <3>1
    <3>4. QED  BY <1>0, <2>1, <3>1, <3>2, <3>3
  <2>3. CASE ~Bindable(r)
    BY <1>1, <2>1, <2>3
  <2>4. QED  BY <2>2, <2>3
<1>7. lock' \in [owner : Pollers \cup {None}, stale : BOOLEAN]
  BY <1>1 DEF OffsetInv, Types
<1>8. QED  BY <1>1, <1>2, <1>3, <1>4, <1>5, <1>6, <1>7, ReadingKeeps

LEMMA ConfirmKeeps ==
    ASSUME Assumptions, OffsetInv, ConfirmInv, NEW h \in Handlers, Confirm(h)
    PROVE  OffsetInv'
<1> PICK u : u = handler[h].updates[1]
  OBVIOUS
<1> PICK r : r = handler[h].bound
  OBVIOUS
<1> PICK m : m = [handler[h] EXCEPT !.pc = "upsert", !.bound = None]
  OBVIOUS
<1>0. /\ handler[h] \in Work /\ Head(handler[h].updates) = u /\ u \in Nat
      /\ r \in Requests /\ handler[h].pc = "confirm" /\ ReadOk(handler[h], Len(posts))
      /\ h \in Pollers => PollOk(handler[h], Len(posts), handled)
  BY HeadIsAnUpdate DEF Confirm, ConfirmInv, OffsetInv
<1>1. m \in Work /\ m.pc = "upsert" /\ m.updates = handler[h].updates /\ m.from = handler[h].from
  BY <1>0 DEF Work, Stages
<1>2. /\ HandlerMoves(h, m) /\ UNCHANGED <<request, posts, offset, lock, handled>>
      /\ confirmations' \in {confirmations, [confirmations EXCEPT ![r] = Append(@, u)]}
  BY <1>0 DEF Confirm, HandlerMoves
<1>3. ReadOk(m, Len(posts)) /\ (h \in Pollers => PollOk(m, Len(posts), handled'))
  BY <1>0, <1>1, <1>2 DEF ReadOk, PollOk
<1>4. /\ handler' \in [Handlers -> Work]
      /\ \A k \in Handlers : ReadOk(handler'[k], Len(posts'))
      /\ \A p \in Pollers : PollOk(handler'[p], Len(posts'), handled')
  BY <1>1, <1>2, <1>3, OneHandlerMoves
<1>5. confirmations' \in [Requests -> Seq(Nat)]
  <2>1. confirmations \in [Requests -> Seq(Nat)]
    BY DEF OffsetInv, Types
  <2>2. Append(confirmations[r], u) \in Seq(Nat)
    BY <1>0, <2>1
  <2>3. QED  BY <1>0, <1>2, <2>1, <2>2
<1>6. Types'
  BY <1>2, <1>4, <1>5 DEF OffsetInv, Types
<1>7. OffsetPassesNoUpdate'
  BY <1>2 DEF OffsetInv, OffsetPassesNoUpdate
<1>8. QED  BY <1>4, <1>6, <1>7 DEF OffsetInv

\* What is left of a list of updates that follow one another.
LEMMA TailFollows ==
    ASSUME NEW q \in Seq(Nat), q # <<>>, \A i \in 1..Len(q) - 1 : q[i + 1] = q[i] + 1
    PROVE  /\ Tail(q) \in Seq(Nat) /\ Len(Tail(q)) = Len(q) - 1
           /\ \A i \in 1..Len(Tail(q)) : i + 1 \in 1..Len(q) /\ Tail(q)[i] = q[i + 1]
           /\ \A i \in 1..Len(Tail(q)) - 1 : Tail(q)[i + 1] = Tail(q)[i] + 1
           /\ Tail(q) # <<>> => Tail(q)[1] - 1 = q[1]
<1> PICK n : n = Len(q)
  OBVIOUS
<1> PICK t : t = Tail(q)
  OBVIOUS
<1>1. n \in Nat \ {0} /\ t \in Seq(Nat) /\ Len(t) = n - 1 /\ \A i \in 1..n : q[i] \in Nat
  OBVIOUS
<1>2. \A i \in 1..n - 1 : i + 1 \in 1..n /\ t[i] = q[i + 1]
  BY <1>1
<1>3. ASSUME NEW i \in 1..(n - 1) - 1  PROVE t[i + 1] = t[i] + 1
  <2>1. i \in 1..n - 1 /\ i + 1 \in 1..n - 1
    BY <1>1
  <2>2. t[i] = q[i + 1] /\ t[i + 1] = q[(i + 1) + 1]
    BY <1>2, <2>1
  <2>3. q[(i + 1) + 1] = q[i + 1] + 1
    BY <2>1
  <2>4. QED  BY <2>2, <2>3
<1>4. ASSUME t # <<>>  PROVE t[1] - 1 = q[1]
  <2>1. n - 1 # 0
    BY <1>1, <1>4
  <2>2. 1 \in 1..n - 1 /\ 1 \in 1..n
    BY <1>1, <2>1
  <2>3. t[1] = q[1 + 1] /\ q[1 + 1] = q[1] + 1 /\ q[1] \in Nat
    BY <1>1, <1>2, <2>2
  <2> PICK a : a = q[1]
    OBVIOUS
  <2>4. a \in Nat /\ t[1] = a + 1
    BY <2>3
  <2>5. (a + 1) - 1 = a
    BY <2>4
  <2>6. QED  BY <2>4, <2>5, Zenon
<1>5. QED  BY <1>1, <1>2, <1>3, <1>4

\* The offset moves to an update that was processed like all before it, or stays.
LEMMA UpsertKeeps ==
    ASSUME Assumptions, OffsetInv, NEW p \in Pollers, Upsert(p)
    PROVE  OffsetInv'
<1> PICK updates : updates = handler[p].updates
  OBVIOUS
<1> PICK u : u = updates[1]
  OBVIOUS
<1> PICK rest : rest = Tail(updates)
  OBVIOUS
<1> PICK m : m = [handler[p] EXCEPT !.pc = Next1(rest), !.updates = rest]
  OBVIOUS
<1>0. /\ p \in Handlers /\ handler[p] \in Work /\ handler[p].pc = "upsert"
      /\ ReadOk(handler[p], Len(posts)) /\ PollOk(handler[p], Len(posts), handled)
      /\ offset \in Nat /\ offset <= Len(posts) /\ Len(posts) \in Nat
  BY DEF Handlers, OffsetInv, Types, Upsert
<1>1. /\ updates \in Seq(Nat) /\ Len(updates) \in Nat \ {0} /\ Head(updates) = u
      /\ u \in Nat /\ u \in 1..Len(posts)
  BY <1>0, HeadIsAnUpdate
<1>2. /\ rest \in Seq(Nat) /\ \A i \in 1..Len(rest) : i + 1 \in 1..Len(updates) /\ rest[i] = updates[i + 1]
      /\ \A i \in 1..Len(rest) - 1 : rest[i + 1] = rest[i] + 1
      /\ rest # <<>> => rest[1] - 1 = u
  <2>1. updates # <<>> /\ \A i \in 1..Len(updates) - 1 : updates[i + 1] = updates[i] + 1
    BY <1>0 DEF ReadOk, PollOk
  <2>2. QED  BY <1>1, <2>1, TailFollows
<1>3. /\ m \in Work /\ m.updates = rest /\ m.from = handler[p].from /\ m.pc = Next1(rest)
      /\ m.pc \in {"release", "process"} /\ (m.pc = "process" => rest # <<>>)
  BY <1>0, <1>2 DEF Work, Stages, Next1
<1>4. /\ HandlerMoves(p, m) /\ UNCHANGED <<request, posts, lock, handled, confirmations>>
      /\ offset' = Greatest(u)
  BY <1>1 DEF Upsert, HandlerMoves
<1>5. 1..u \subseteq handled
  BY <1>0 DEF PollOk
<1>6. ReadOk(m, Len(posts))
  BY <1>0, <1>2, <1>3 DEF ReadOk
<1>7. PollOk(m, Len(posts), handled')
  <2>1. \A i \in 1..Len(m.updates) - 1 : m.updates[i + 1] = m.updates[i] + 1
    BY <1>2, <1>3
  <2>2. m.pc = "process" => 1..(m.updates[1] - 1) \subseteq handled'
    BY <1>2, <1>3, <1>4, <1>5
  <2>3. m.from <= Len(posts) /\ 1..m.from \subseteq handled' /\ m.pc \notin {"confirm", "upsert"}
    BY <1>0, <1>3, <1>4 DEF PollOk
  <2>4. QED  BY <2>1, <2>2, <2>3 DEF PollOk
<1>8. /\ handler' \in [Handlers -> Work]
      /\ \A k \in Handlers : ReadOk(handler'[k], Len(posts'))
      /\ \A q \in Pollers : PollOk(handler'[q], Len(posts'), handled')
  BY <1>0, <1>3, <1>4, <1>6, <1>7, OneHandlerMoves
<1>9. offset' \in Nat /\ (offset' = u \/ offset' = offset)
  BY <1>0, <1>1, <1>4, GreatestIsGreater
<1>10. Types'
  BY <1>0, <1>1, <1>4, <1>8, <1>9 DEF OffsetInv, Types
<1>11. OffsetPassesNoUpdate'
  BY <1>4, <1>5, <1>9 DEF OffsetInv, OffsetPassesNoUpdate
<1>12. QED  BY <1>8, <1>10, <1>11 DEF OffsetInv

\* A call is answered, a poller releases its lock, or either ends.
LEMMA GoingIdleKeeps ==
    ASSUME Assumptions, OffsetInv, NEW h \in Handlers, Answer(h) \/ Release(h) \/ Ends(h)
    PROVE  OffsetInv'
<1>1. HandlerMoves(h, Idle) /\ UNCHANGED <<request, posts, offset, handled, confirmations>>
  BY DEF Answer, Release, Ends, HandlerMoves
<1>2. Idle \in Work /\ ReadOk(Idle, Len(posts)) /\ PollOk(Idle, Len(posts), handled')
  BY IdleIsOk DEF OffsetInv, Types
<1>3. lock' \in [owner : Pollers \cup {None}, stale : BOOLEAN]
  <2>1. lock \in [owner : Pollers \cup {None}, stale : BOOLEAN]
    BY DEF OffsetInv, Types
  <2>2. Free \in [owner : Pollers \cup {None}, stale : BOOLEAN]
    BY DEF Free
  <2>3. lock' = lock \/ lock' = Free
    BY DEF Answer, Release, Ends
  <2>4. QED  BY <2>1, <2>2, <2>3
<1>4. request' \in [Requests -> Bindings] /\ \A r \in Requests : request'[r].chat <= MaxUpdates
  BY <1>1 DEF OffsetInv, Types
<1>5. QED  BY <1>1, <1>2, <1>3, <1>4, ReadingKeeps

LEMMA OffsetStep ==
    ASSUME Assumptions, OffsetInv, ConfirmInv, [Next]_vars
    PROVE  OffsetInv'
<1>1. CASE \E r \in Requests : Create(r) \/ Cancel(r) \/ FallsDue(r) \/ Expire(r)
  BY <1>1, RequestKeeps
<1>2. CASE Post \/ LockAges
  BY <1>2, PostKeeps, LockAgesKeeps
<1>3. CASE \E p \in Pollers : PollStep(p) \/ FetchFails(p)
  <2>1. PICK p \in Pollers : PollStep(p) \/ FetchFails(p)
    BY <1>3
  <2>2. p \in Handlers
    BY DEF Handlers
  <2>3. QED
    BY <2>1, <2>2, ClaimKeeps, FetchKeeps, FetchFailsKeeps, ProcessKeeps, ConfirmKeeps,
       UpsertKeeps, GoingIdleKeeps DEF PollStep
<1>4. CASE \E h \in Hooks : HookStep(h)
  <2>1. PICK h \in Hooks : HookStep(h)
    BY <1>4
  <2>2. h \in Handlers
    BY DEF Handlers
  <2>3. QED
    BY <2>1, <2>2, ReceiveKeeps, ProcessKeeps, ConfirmKeeps, GoingIdleKeeps DEF HookStep
<1>5. CASE \E h \in Handlers : Ends(h)
  BY <1>5, GoingIdleKeeps
<1>6. CASE UNCHANGED vars
  <2>1. Types'
    BY <1>6 DEF vars, OffsetInv, Types
  <2>2. QED  BY <1>6, <2>1 DEF vars, OffsetInv, OffsetPassesNoUpdate
<1>7. QED  BY <1>1, <1>2, <1>3, <1>4, <1>5, <1>6 DEF Next

-----------------------------------------------------------------------------
LEMMA ConfirmInit ==
    ASSUME Init
    PROVE  ConfirmInv
BY DEF Init, ConfirmInv, Confirming, Idle

\* A step on which nobody starts to confirm and what is bound stays bound.
LEMMA QuietKeeps ==
    ASSUME ConfirmInv, UNCHANGED confirmations,
           \A r \in Requests : request[r].status = "bound" =>
               request'[r].status = "bound" /\ request'[r].chat = request[r].chat,
           \A h \in Handlers : handler'[h].pc = "confirm" => handler'[h] = handler[h]
    PROVE  ConfirmInv'
<1>1. \A h \in Handlers, r \in Requests :
          Confirming(h, r)' => Confirming(h, r) /\ handler'[h] = handler[h]
  BY DEF Confirming
<1>2. \A h \in Handlers : handler'[h].pc = "confirm" => handler'[h].bound \in Requests
  BY DEF ConfirmInv
<1>3. \A r \in Requests : confirmations'[r] # <<>> =>
          request'[r].status = "bound" /\ confirmations'[r] = <<request'[r].chat>>
  <2>1. ASSUME NEW r \in Requests, confirmations'[r] # <<>>
        PROVE  request'[r].status = "bound" /\ confirmations'[r] = <<request'[r].chat>>
    <3>1. request[r].status = "bound" /\ confirmations[r] = <<request[r].chat>>
      BY <2>1 DEF ConfirmInv
    <3>2. request'[r].status = "bound" /\ request'[r].chat = request[r].chat
      BY <3>1
    <3>3. QED  BY <3>1, <3>2
  <2>2. QED  BY <2>1
<1>4. ASSUME NEW h \in Handlers, NEW r \in Requests, Confirming(h, r)'
      PROVE  /\ request'[r].status = "bound" /\ request'[r].chat = handler'[h].updates[1]
             /\ confirmations'[r] = <<>>
  BY <1>1, <1>4 DEF ConfirmInv
<1>5. \A h, k \in Handlers, r \in Requests : Confirming(h, r)' /\ Confirming(k, r)' => h = k
  BY <1>1 DEF ConfirmInv
<1>6. QED  BY <1>2, <1>3, <1>4, <1>5 DEF ConfirmInv

\* A request is bound by one statement, and only the handler whose statement it
\* was goes on to confirm it.
LEMMA ProcessBindsOnce ==
    ASSUME Assumptions, OffsetInv, ConfirmInv, NEW h \in Handlers, Process(h)
    PROVE  ConfirmInv'
<1> PICK u : u = handler[h].updates[1]
  OBVIOUS
<1> PICK r : r = posts[u]
  OBVIOUS
<1>0. /\ handler[h] \in Work /\ Head(handler[h].updates) = u /\ r \in Requests \cup {None}
      /\ handler \in [Handlers -> Work] /\ request \in [Requests -> Bindings]
  BY HeadIsAnUpdate DEF Process, OffsetInv, Types
<1>1. UNCHANGED confirmations
  BY DEF Process
<1>2. CASE ~Bindable(r)
  <2>1. UNCHANGED request /\ handler' = [handler EXCEPT ![h].pc = "upsert"]
    BY <1>0, <1>2 DEF Process
  <2>2. \A k \in Handlers : handler'[k].pc = "confirm" => handler'[k] = handler[k]
    BY <1>0, <2>1 DEF Work
  <2>3. QED  BY <1>1, <2>1, <2>2, QuietKeeps
<1>3. CASE Bindable(r)
  <2>1. r \in Requests /\ request[r].status = "pending"
    BY <1>0, <1>3 DEF Bindable
  <2>2. /\ request' = [request EXCEPT ![r].status = "bound", ![r].chat = u]
        /\ handler' = [handler EXCEPT ![h].pc = "confirm", ![h].bound = r]
    BY <1>0, <1>3 DEF Process
  <2>3. /\ request'[r].status = "bound" /\ request'[r].chat = u
        /\ \A q \in Requests \ {r} : request'[q] = request[q]
    BY <1>0, <2>1, <2>2 DEF Bindings
  <2>4. /\ handler'[h].pc = "confirm" /\ handler'[h].bound = r
        /\ handler'[h].updates = handler[h].updates
        /\ \A k \in Handlers \ {h} : handler'[k] = handler[k]
    BY <1>0, <2>2 DEF Work
  <2>5. confirmations[r] = <<>> /\ \A k \in Handlers : ~Confirming(k, r)
    BY <2>1 DEF ConfirmInv
  <2>6. \A k \in Handlers, q \in Requests :
            Confirming(k, q)' <=> (k = h /\ q = r) \/ (k # h /\ Confirming(k, q))
    BY <2>1, <2>4 DEF Confirming
  <2>7. \A q \in Requests : confirmations'[q] # <<>> =>
            request'[q].status = "bound" /\ confirmations'[q] = <<request'[q].chat>>
    BY <1>1, <2>3, <2>5 DEF ConfirmInv
  <2>8. \A k \in Handlers : handler'[k].pc = "confirm" => handler'[k].bound \in Requests
    BY <2>1, <2>4 DEF ConfirmInv
  <2>9. ASSUME NEW k \in Handlers, NEW q \in Requests, Confirming(k, q)'
        PROVE  /\ request'[q].status = "bound" /\ request'[q].chat = handler'[k].updates[1]
               /\ confirmations'[q] = <<>>
    <3>1. CASE k = h /\ q = r
      BY <1>1, <2>3, <2>4, <2>5, <3>1
    <3>2. CASE k # h /\ Confirming(k, q)
      <4>1. q # r
        BY <2>5, <3>2
      <4>2. QED  BY <1>1, <2>3, <2>4, <3>2, <4>1 DEF ConfirmInv
    <3>3. QED  BY <2>6, <2>9, <3>1, <3>2
  <2>10. \A k, l \in Handlers, q \in Requests : Confirming(k, q)' /\ Confirming(l, q)' => k = l
    BY <2>5, <2>6 DEF ConfirmInv
  <2>11. QED  BY <2>7, <2>8, <2>9, <2>10 DEF ConfirmInv
<1>4. QED  BY <1>2, <1>3

\* The confirmation is the first of the request, and of the chat it is bound to.
LEMMA ConfirmConfirms ==
    ASSUME Assumptions, OffsetInv, ConfirmInv, NEW h \in Handlers, Confirm(h)
    PROVE  ConfirmInv'
<1> PICK u : u = handler[h].updates[1]
  OBVIOUS
<1> PICK r : r = handler[h].bound
  OBVIOUS
<1>0. /\ handler[h] \in Work /\ Head(handler[h].updates) = u /\ r \in Requests /\ u \in Nat
      /\ handler \in [Handlers -> Work] /\ handler[h].pc = "confirm"
      /\ confirmations \in [Requests -> Seq(Nat)]
  BY HeadIsAnUpdate DEF Confirm, OffsetInv, Types, ConfirmInv
<1>1. /\ UNCHANGED request
      /\ handler' = [handler EXCEPT ![h].pc = "upsert", ![h].bound = None]
      /\ \/ confirmations' = [confirmations EXCEPT ![r] = Append(@, u)]
         \/ UNCHANGED confirmations
  BY <1>0 DEF Confirm
<1>2. \A k \in Handlers : handler'[k].pc = "confirm" => k # h /\ handler'[k] = handler[k]
  BY <1>0, <1>1 DEF Work
<1>3. CASE UNCHANGED confirmations
  BY <1>1, <1>2, <1>3, QuietKeeps
<1>4. CASE confirmations' = [confirmations EXCEPT ![r] = Append(@, u)]
  <2>1. Confirming(h, r)
    BY <1>0 DEF Confirming
  <2>2. request[r].status = "bound" /\ request[r].chat = u /\ confirmations[r] = <<>>
    BY <1>0, <2>1 DEF ConfirmInv
  <2>3. confirmations'[r] = <<u>> /\ \A q \in Requests \ {r} : confirmations'[q] = confirmations[q]
    <3>1. Append(<<>>, u) = <<u>>
      BY <1>0
    <3>2. QED  BY <1>0, <1>4, <2>2, <3>1
  <2>4. \A k \in Handlers, q \in Requests :
            Confirming(k, q)' => Confirming(k, q) /\ q # r /\ handler'[k] = handler[k]
    BY <1>0, <1>2, <2>1 DEF ConfirmInv, Confirming
  <2>5. \A q \in Requests : confirmations'[q] # <<>> =>
            request'[q].status = "bound" /\ confirmations'[q] = <<request'[q].chat>>
    BY <1>1, <2>2, <2>3 DEF ConfirmInv
  <2>6. \A k \in Handlers : handler'[k].pc = "confirm" => handler'[k].bound \in Requests
    BY <1>2 DEF ConfirmInv
  <2>7. ASSUME NEW k \in Handlers, NEW q \in Requests, Confirming(k, q)'
        PROVE  /\ request'[q].status = "bound" /\ request'[q].chat = handler'[k].updates[1]
               /\ confirmations'[q] = <<>>
    <3>1. Confirming(k, q) /\ q # r /\ handler'[k] = handler[k]
      BY <2>4, <2>7
    <3>2. /\ request[q].status = "bound" /\ request[q].chat = handler[k].updates[1]
          /\ confirmations[q] = <<>>
      BY <3>1 DEF ConfirmInv
    <3>3. QED  BY <1>1, <2>3, <3>1, <3>2
  <2>8. \A k, l \in Handlers, q \in Requests : Confirming(k, q)' /\ Confirming(l, q)' => k = l
    BY <2>4 DEF ConfirmInv
  <2>9. QED  BY <2>5, <2>6, <2>7, <2>8 DEF ConfirmInv
<1>5. QED  BY <1>1, <1>3, <1>4

LEMMA ConfirmStep ==
    ASSUME Assumptions, OffsetInv, ConfirmInv, [Next]_vars
    PROVE  ConfirmInv'
<1>0. handler \in [Handlers -> Work] /\ request \in [Requests -> Bindings]
  BY DEF OffsetInv, Types
<1>1. ASSUME NEW r \in Requests, Create(r) \/ Cancel(r) \/ FallsDue(r) \/ Expire(r)
      PROVE  ConfirmInv'
  <2>1. UNCHANGED <<handler, confirmations>> /\ request[r].status # "bound"
    BY <1>1 DEF Create, Cancel, FallsDue, Expire
  <2>2. \A q \in Requests \ {r} : request'[q] = request[q]
    BY <1>0, <1>1 DEF Create, Cancel, FallsDue, Expire
  <2>3. QED  BY <2>1, <2>2, QuietKeeps
<1>2. CASE Post \/ LockAges \/ UNCHANGED vars
  <2>1. UNCHANGED <<handler, confirmations, request>>
    BY <1>2 DEF Post, LockAges, vars
  <2>2. QED  BY <2>1, QuietKeeps
<1>3. ASSUME NEW h \in Handlers,
             \/ Claim(h) \/ Fetch(h) \/ FetchFails(h) \/ Receive(h) \/ Upsert(h)
             \/ Release(h) \/ Answer(h) \/ Ends(h)
      PROVE  ConfirmInv'
  <2>1. UNCHANGED <<confirmations, request>>
    BY <1>3 DEF Claim, Fetch, FetchFails, Receive, Upsert, Release, Answer, Ends
  <2>2. handler'[h].pc # "confirm" /\ \A k \in Handlers \ {h} : handler'[k] = handler[k]
    <3>1. CASE Claim(h) \/ Receive(h)
      BY <1>0, <3>1 DEF Claim, Receive, Idle
    <3>2. CASE Fetch(h)
      BY <1>0, <3>2 DEF Fetch, Next1, Work
    <3>3. CASE Upsert(h)
      BY <1>0, <3>3 DEF Upsert, Next1, Work
    <3>4. CASE FetchFails(h)
      BY <1>0, <3>4 DEF FetchFails, Work
    <3>5. CASE Release(h) \/ Answer(h) \/ Ends(h)
      BY <1>0, <3>5 DEF Release, Answer, Ends, Idle
    <3>6. QED  BY <1>3, <3>1, <3>2, <3>3, <3>4, <3>5
  <2>3. QED  BY <2>1, <2>2, QuietKeeps
<1>4. Pollers \subseteq Handlers /\ Hooks \subseteq Handlers
  BY DEF Handlers
<1>5. CASE \E p \in Pollers : PollStep(p) \/ FetchFails(p)
  BY <1>3, <1>4, <1>5, ProcessBindsOnce, ConfirmConfirms DEF PollStep
<1>6. CASE \E h \in Hooks : HookStep(h)
  BY <1>3, <1>4, <1>6, ProcessBindsOnce, ConfirmConfirms DEF HookStep
<1>7. CASE \E h \in Handlers : Ends(h)
  BY <1>3, <1>7
<1>8. QED  BY <1>1, <1>2, <1>5, <1>6, <1>7 DEF Next

-----------------------------------------------------------------------------
\* What every state is like: neither half holds without the other.
TelegramInv == OffsetInv /\ ConfirmInv

LEMMA TelegramInvInit ==
    ASSUME Assumptions, Init
    PROVE  TelegramInv
BY OffsetInit, ConfirmInit DEF TelegramInv

LEMMA TelegramInvStep ==
    ASSUME Assumptions, TelegramInv, [Next]_vars
    PROVE  TelegramInv'
BY OffsetStep, ConfirmStep DEF TelegramInv

LEMMA TelegramInvTells ==
    ASSUME Assumptions, TelegramInv
    PROVE  TypeOK /\ UpdatesBindOnce
<1>1. OffsetInv /\ ConfirmInv
  BY DEF TelegramInv
<1>2. UpdatesBindOnce
  BY <1>1 DEF OffsetInv, ConfirmInv, UpdatesBindOnce, ConfirmedOnce
<1>3. request \in [Requests -> [status : {"none", "pending", "bound", "cancelled", "expired"},
                                due : BOOLEAN, chat : 0..MaxUpdates]]
  BY <1>1 DEF OffsetInv, Types, Bindings, Assumptions
<1>4. offset \in 0..Len(posts)
  BY <1>1 DEF OffsetInv, Types
<1>5. lock.owner \in Pollers \cup {None}
  BY <1>1 DEF OffsetInv, Types
<1>6. QED  BY <1>2, <1>3, <1>4, <1>5 DEF TypeOK

\* The types of the state. The offset passes no update that was not processed, and
\* a request is confirmed once, to the chat it is bound to, however many pollers
\* and webhook calls there are, whenever the lock is taken from one that is still
\* at work, and wherever they end.
THEOREM UpdatesAreBoundOnce ==
    ASSUME Assumptions
    PROVE  Spec => [](TypeOK /\ UpdatesBindOnce)
<1>1. Init => TelegramInv
  BY TelegramInvInit
<1>2. TelegramInv /\ [Next]_vars => TelegramInv'
  BY TelegramInvStep
<1>3. TelegramInv => TypeOK /\ UpdatesBindOnce
  BY TelegramInvTells
<1>4. QED  BY <1>1, <1>2, <1>3, PTL DEF Spec
=============================================================================
