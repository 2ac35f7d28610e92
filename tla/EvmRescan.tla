------------------------------ MODULE EvmRescan ------------------------------
(***************************************************************************)
(* rescan_evm_transaction: a user asks for the events of one transaction.  *)
(* The handler reads the transaction and its receipt by two requests,      *)
(* between which the chain may include the transaction in another block,   *)
(* and inserts the missing events one by one, while other rescans and the  *)
(* workers' scans insert the same ones.                                    *)
(***************************************************************************)
EXTENDS Naturals, Sequences

CONSTANTS
    Rescans,        \* calls of rescan_evm_transaction
    Addresses,      \* watched addresses of the tenant on the chain
    Native,         \* the native asset
    Tokens,         \* the active erc20 assets of the chain
    From, To,       \* the ends of the transaction
    Value,          \* its native value, 0 or 1
    Logs,           \* its transfer logs, if it succeeds
    Inclusions,     \* its successive inclusions in the chain: base, the index of
                    \* its first log, and whether it succeeds
    MaxEdits,       \* bound on the user's edits of the watched addresses
    MaxFaults       \* bound on requests that fail

Assets == Tokens \cup {Native}

Assumptions ==
    /\ Native \notin Tokens /\ Value \in {0, 1}
    /\ \A l \in Logs : l.n \in Nat /\ l.token \in Tokens
    /\ Inclusions \in Seq([base : Nat, ok : BOOLEAN])
    /\ MaxEdits \in Nat /\ MaxFaults \in Nat

VARIABLES
    mined,      \* the inclusion the chain has; 0: not mined
    watched,    \* the selected assets of each address, and whether it is active
    events,     \* address_events of the transaction
    call,       \* what each rescan is at
    edits, faults

vars == <<mined, watched, events, call, edits, faults>>

NoCall == [pc |-> "new", tx |-> 0, receipt |-> 0, todo |-> {}, drafts |-> {}, made |-> {}]

Init ==
    /\ mined = 0
    /\ watched \in [Addresses -> [active : {TRUE}, selected : {Assets, Tokens}]]
    /\ events = {}
    /\ call = [r \in Rescans |-> NoCall]
    /\ edits = 0 /\ faults = 0

\* External: the chain includes the transaction, or includes it elsewhere.
Include ==
    /\ mined < Len(Inclusions)
    /\ mined' = mined + 1
    /\ UNCHANGED <<watched, events, call, edits, faults>>

Edit(a) ==
    /\ edits < MaxEdits
    /\ edits' = edits + 1
    /\ \E active \in BOOLEAN, selected \in SUBSET Assets :
         watched' = [watched EXCEPT ![a] = [active |-> active, selected |-> selected]]
    /\ UNCHANGED <<mined, events, call, faults>>

Goto(r, pc) == call' = [call EXCEPT ![r].pc = pc]

\* eth_get_transaction_by_hash; a transaction that is not mined is refused later.
ReadTx(r) ==
    /\ call[r].pc = "new"
    /\ call' = [call EXCEPT ![r].pc = "receipt", ![r].tx = mined]
    /\ UNCHANGED <<mined, watched, events, edits, faults>>

\* eth_get_transaction_receipt and validate_evm_rescan_rpc_consistency: of one
\* hash the ends agree, the blocks perhaps not.
\* A faulty check: it does not compare the blocks.
ConsistentAlways(tx, receipt) == tx # 0 /\ receipt # 0
Consistent(tx, receipt) == tx = receipt /\ tx # 0
ReadReceipt(r) ==
    /\ call[r].pc = "receipt"
    /\ IF Consistent(call[r].tx, mined)
       THEN call' = [call EXCEPT ![r].pc = "list", ![r].receipt = mined]
       ELSE Goto(r, "failed")
    /\ UNCHANGED <<mined, watched, events, edits, faults>>

\* RESCAN_WATCHED_ADDRESSES_FOR_CHAIN_QUERY.
ListAddresses(r) ==
    /\ call[r].pc = "list"
    /\ call' = [call EXCEPT ![r].pc = "select",
                            ![r].todo = {a \in Addresses : watched[a].active}]
    /\ UNCHANGED <<mined, watched, events, edits, faults>>

Transfer(a, asset, log, block) ==
    [address |-> a, asset |-> asset, type |-> "transfer", log |-> log, block |-> block]
Fee(a, block) ==
    [address |-> a, asset |-> Native, type |-> "fee_only_change", log |-> "none", block |-> block]

\* decode_rescan_token_transfers, and the logs of the address among them.
TokenTransfers(a, receipt, selected) ==
    {Transfer(a, l.token, Inclusions[receipt].base + l.n, receipt) :
        l \in {m \in Logs : /\ Inclusions[receipt].ok
                            /\ m.token \in selected /\ a \in {m.from, m.to}}}
\* should_insert_native_transfer_event: its block is the transaction's.
NativeTransfers(a, tx, receipt, selected) ==
    IF /\ Inclusions[receipt].ok /\ Native \in selected
       /\ Value # 0 /\ a \in {From, To}
    THEN {Transfer(a, Native, "none", tx)} ELSE {}
\* should_insert_fee_only_event.
Fees(a, tx, receipt, selected) ==
    IF Native \in selected /\ a = From /\ (~Inclusions[receipt].ok \/ Value = 0)
    THEN {Fee(a, tx)} ELSE {}

\* selected_assets_for_address: the drafts of the next address.
SelectAssets(r) ==
    /\ call[r].pc = "select" /\ call[r].drafts = {}
    /\ \E a \in call[r].todo :
         LET tx == call[r].tx
             receipt == call[r].receipt
             drafts == TokenTransfers(a, receipt, watched[a].selected)
                       \cup NativeTransfers(a, tx, receipt, watched[a].selected)
                       \cup Fees(a, tx, receipt, watched[a].selected)
         IN call' = [call EXCEPT ![r].todo = @ \ {a}, ![r].drafts = drafts,
                                 ![r].made = @ \cup {<<a, watched[a].selected>>}]
    /\ UNCHANGED <<mined, watched, events, edits, faults>>

\* idx_address_events_unique_transfer, which leaves the block out.
SameEvent(d, e) == [d EXCEPT !.block = 0] = [e EXCEPT !.block = 0]
InsertedOnce(d) ==
    IF \E e \in events : SameEvent(d, e) THEN events ELSE events \cup {d}

InsertDraft(r) ==
    /\ call[r].pc = "select"
    /\ \E d \in call[r].drafts :
         /\ events' = InsertedOnce(d)
         /\ call' = [call EXCEPT ![r].drafts = @ \ {d}]
    /\ UNCHANGED <<mined, watched, edits, faults>>

Respond(r) ==
    /\ call[r].pc = "select" /\ call[r].todo = {} /\ call[r].drafts = {}
    /\ Goto(r, "done")
    /\ UNCHANGED <<mined, watched, events, edits, faults>>

\* A request to the node or the database fails; the user may ask again.
Fails(r) ==
    /\ call[r].pc \notin {"new", "done", "failed"} /\ faults < MaxFaults
    /\ faults' = faults + 1
    /\ Goto(r, "failed")
    /\ UNCHANGED <<mined, watched, events, edits>>
Again(r) ==
    /\ call[r].pc = "failed"
    /\ call' = [call EXCEPT ![r] = NoCall]
    /\ UNCHANGED <<mined, watched, events, edits, faults>>

\* scan_evm_erc20_transfers of a worker finds a transfer of the transaction.
Scan(a) ==
    /\ mined # 0
    /\ \E d \in TokenTransfers(a, mined, watched[a].selected) :
         events' = InsertedOnce(d) /\ events' # events
    /\ UNCHANGED <<mined, watched, call, edits, faults>>

Next ==
    \/ Include
    \/ \E a \in Addresses : Edit(a) \/ Scan(a)
    \/ \E r \in Rescans : \/ ReadTx(r) \/ ReadReceipt(r) \/ ListAddresses(r)
                          \/ SelectAssets(r) \/ InsertDraft(r) \/ Respond(r)
                          \/ Fails(r) \/ Again(r)

Spec == Init /\ [][Next]_vars

-----------------------------------------------------------------------------
TypeOK ==
    /\ mined \in 0..Len(Inclusions)
    /\ \A r \in Rescans : call[r].pc \in {"new", "receipt", "list", "select", "done", "failed"}
    /\ \A e \in events : e.address \in Addresses /\ e.asset \in Assets

\* An event tells what its block has: a transaction and a receipt that belong
\* together, not one from before a reorganisation and one from after it.
EventsAreReal ==
    \A e \in events :
      LET ok == Inclusions[e.block].ok
      IN IF e.asset = Native
         THEN IF e.type = "transfer" THEN ok /\ Value # 0 ELSE ~ok \/ Value = 0
         ELSE ok /\ \E l \in Logs : l.token = e.asset /\ e.log = Inclusions[e.block].base + l.n

\* While the chain keeps the transaction where it is, it makes one event per
\* address and log, and a sender gets either its transfer or its fee.
OneEventEach ==
    mined = 1 =>
      \A d, e \in events :
        d.address = e.address /\ d.asset = e.asset /\ (d.log = e.log \/ d.asset = Native) => d = e

\* A rescan that answers leaves every address it looked at with the events of its
\* inclusion, and the sender who selected the native asset with one of the two.
RescanIsComplete(r) ==
    call[r].pc = "select" /\ call'[r].pc = "done" =>
      LET receipt == call[r].receipt
      IN \A pair \in call[r].made :
           LET a == pair[1]
               selected == pair[2]
           IN /\ \A l \in Logs :
                   Inclusions[receipt].ok /\ l.token \in selected /\ a \in {l.from, l.to} =>
                     \E e \in events : /\ e.address = a /\ e.asset = l.token
                                       /\ e.log = Inclusions[receipt].base + l.n
              /\ a = From /\ Native \in selected =>
                   \E e \in events : e.address = a /\ e.asset = Native
=============================================================================
