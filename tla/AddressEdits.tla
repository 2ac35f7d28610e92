----------------------------- MODULE AddressEdits -----------------------------
(***************************************************************************)
(* One watched address whose chain and assets users edit, in transactions, *)
(* while a custody assignment binds more assets to it, scans read its      *)
(* chain and its assets by two statements, and notification rules are      *)
(* written that name it.  Row locks as in Postgres: an edit holds the row, *)
(* and one that moves the address to another chain changes a key, which    *)
(* an insert of assets waits for and which waits for one.                  *)
(***************************************************************************)
EXTENDS Naturals, FiniteSets

CONSTANTS
    Chains,
    AssetsOf,       \* the active assets of each chain
    Editors,        \* calls of update_watched_address that may be in flight
    Binders,        \* custody assignments that may be in flight
    Scans,          \* scans of the address that may be in flight
    Rules,
    MaxMoves,       \* bound on the moves to another chain
    MaxFaults,      \* bound on transactions that end early
    None

Assets == UNION {AssetsOf[c] : c \in Chains}

Assumptions ==
    /\ \A c \in Chains : AssetsOf[c] # {}
    /\ \A c, d \in Chains : c # d => AssetsOf[c] \cap AssetsOf[d] = {}
    /\ MaxMoves \in Nat /\ MaxFaults \in Nat /\ None \notin Chains \cup Assets

VARIABLES
    address,    \* the row and its watched_address_assets; status "none": no row
    editor,     \* what each edit is at, what it writes, the assets it deleted
    binder,     \* the same, the chain it found the address on, and the epoch
    scan,       \* what each scan read, and the epochs it read it in
    rule,       \* notification_rules, and the epoch each was checked in
    epoch,      \* history: moves that committed
    faults,
    mixed       \* history: an assignment bound assets to an address moved meanwhile

vars == <<address, editor, binder, scan, rule, epoch, faults, mixed>>

IdleEditor == [pc |-> "idle", chain |-> None, status |-> "none", assets |-> {}, removed |-> {}]
IdleBinder == [pc |-> "idle", chain |-> None, todo |-> {}, bound |-> {}, activates |-> FALSE, epoch |-> 0]
IdleScan == [pc |-> "idle", chain |-> None, assets |-> {}, read |-> 0, selected |-> 0]
NoRule == [pc |-> "none", chain |-> None, named |-> FALSE, asset |-> None, epoch |-> 0]

Init ==
    /\ \E c \in Chains : address = [chain |-> c, status |-> "active", assets |-> AssetsOf[c]]
    /\ editor = [e \in Editors |-> IdleEditor]
    /\ binder = [b \in Binders |-> IdleBinder]
    /\ scan = [s \in Scans |-> IdleScan]
    /\ rule = [r \in Rules |-> NoRule]
    /\ epoch = 0 /\ faults = 0 /\ mixed = FALSE

Exists == address.status # "none"
Editing == {e \in Editors : editor[e].pc # "idle"}
Moving == {e \in Editing : editor[e].chain # address.chain}
Activating == {b \in Binders : binder[b].activates}
Binding == {b \in Binders : binder[b].bound # {}}

\* update_watched_address: validate_assets_for_chain, BEGIN, and its UPDATE, which
\* waits for the row and, if it changes the key, for the assets being inserted.
UpdateRow(e) ==
    /\ editor[e].pc = "idle" /\ Exists
    /\ Editing = {} /\ Activating = {}
    /\ \E c \in Chains, status \in {"active", "paused"} :
         /\ c # address.chain => epoch < MaxMoves /\ Binding = {}
         /\ \E assets \in (SUBSET AssetsOf[c]) \ {{}} :
              editor' = [editor EXCEPT ![e] =
                [pc |-> "delete", chain |-> c, status |-> status, assets |-> assets, removed |-> {}]]
    /\ UNCHANGED <<address, binder, scan, rule, epoch, faults, mixed>>

\* replace_watched_address_assets: the rows its DELETE sees, then its own.
\* A faulty one: nothing is deleted.
RemovedNone == {}
Removed == address.assets
DeleteAssets(e) ==
    /\ editor[e].pc = "delete"
    /\ editor' = [editor EXCEPT ![e].pc = "insert", ![e].removed = Removed]
    /\ UNCHANGED <<address, binder, scan, rule, epoch, faults, mixed>>

\* The INSERT waits for the same asset of an assignment; COMMIT.
InsertAssets(e) ==
    /\ editor[e].pc = "insert"
    /\ \A b \in Binding : binder[b].bound \cap editor[e].assets = {}
    /\ address' = [chain |-> editor[e].chain, status |-> editor[e].status,
                   assets |-> (address.assets \ editor[e].removed) \cup editor[e].assets]
    /\ epoch' = IF editor[e].chain # address.chain THEN epoch + 1 ELSE epoch
    /\ editor' = [editor EXCEPT ![e] = IdleEditor]
    /\ UNCHANGED <<binder, scan, rule, faults, mixed>>

\* delete_watched_address, with the rules that name the address.
DeleteAddress ==
    /\ Exists /\ Editing = {} /\ Activating = {} /\ Binding = {}
    /\ address' = [address EXCEPT !.status = "none", !.assets = {}]
    /\ rule' = [r \in Rules |-> IF rule[r].pc = "saved" /\ rule[r].named THEN NoRule ELSE rule[r]]
    /\ UNCHANGED <<editor, binder, scan, epoch, faults, mixed>>

\* ensure_watched_address_for_chain_config finds the address, without a lock, on
\* the chain of its config.
FindAddress(b) ==
    /\ binder[b].pc = "idle" /\ Exists
    /\ \E assets \in (SUBSET AssetsOf[address.chain]) \ {{}} :
         binder' = [binder EXCEPT ![b] =
           [IdleBinder EXCEPT !.pc = IF address.status = "active" THEN "bind" ELSE "activate",
                              !.chain = address.chain, !.todo = assets, !.epoch = epoch]]
    /\ UNCHANGED <<address, editor, scan, rule, epoch, faults, mixed>>

\* ENSURE_WATCHED_ADDRESS_UPDATE_QUERY waits for an edit; a row that is gone is
\* an error.
Activate(b) ==
    /\ binder[b].pc = "activate" /\ Editing = {} /\ Activating = {}
    /\ binder' = IF Exists THEN [binder EXCEPT ![b].pc = "bind", ![b].activates = TRUE]
                           ELSE [binder EXCEPT ![b] = IdleBinder]
    /\ UNCHANGED <<address, editor, scan, rule, epoch, faults, mixed>>

\* ENSURE_WATCHED_ADDRESS_ASSET_QUERY: its foreign key waits for a move, its
\* primary key for an edit that deleted the same asset.
InTheWay(a) == Moving # {} \/ \E e \in Editing : a \in editor[e].removed
BindAsset(b) ==
    /\ binder[b].pc = "bind"
    /\ \E a \in binder[b].todo :
         /\ ~InTheWay(a)
         /\ \A c \in Binders \ {b} : a \notin binder[c].bound
         /\ binder' = IF Exists
                      THEN [binder EXCEPT ![b].todo = @ \ {a}, ![b].bound = @ \cup ({a} \ address.assets)]
                      ELSE [binder EXCEPT ![b] = IdleBinder]
    /\ UNCHANGED <<address, editor, scan, rule, epoch, faults, mixed>>
CommitBinding(b) ==
    /\ binder[b].pc = "bind" /\ binder[b].todo = {}
    /\ address' = IF ~Exists THEN address
                  ELSE [address EXCEPT !.assets = @ \cup binder[b].bound,
                                       !.status = IF binder[b].activates THEN "active" ELSE @]
    /\ mixed' = (mixed \/ binder[b].epoch # epoch)
    /\ binder' = [binder EXCEPT ![b] = IdleBinder]
    /\ UNCHANGED <<editor, scan, rule, epoch, faults>>

Rollback ==
    /\ faults < MaxFaults /\ faults' = faults + 1
    /\ \/ \E e \in Editing : editor' = [editor EXCEPT ![e] = IdleEditor] /\ UNCHANGED binder
       \/ \E b \in Binders : /\ binder[b].pc # "idle"
                             /\ binder' = [binder EXCEPT ![b] = IdleBinder] /\ UNCHANGED editor
    /\ UNCHANGED <<address, scan, rule, epoch, mixed>>

\* A scan reads the row, then with its provider the assets; it may end before.
ReadContext(s) ==
    /\ scan[s].pc # "context" /\ address.status = "active"
    /\ scan' = [scan EXCEPT ![s] = [IdleScan EXCEPT !.pc = "context", !.chain = address.chain, !.read = epoch]]
    /\ UNCHANGED <<address, editor, binder, rule, epoch, faults, mixed>>
ReadAssets(s) ==
    /\ scan[s].pc = "context"
    /\ scan' = [scan EXCEPT ![s].pc = "scanning", ![s].assets = address.assets, ![s].selected = epoch]
    /\ UNCHANGED <<address, editor, binder, rule, epoch, faults, mixed>>

\* validate_notification_rule_references reads the chain of the address; what is
\* named must be of one chain.
ChainOf(a) == CHOOSE c \in Chains : a \in AssetsOf[c]
AgreesWithChain(chain, other) == chain = None \/ other = None \/ chain = other
Consistent(chain, ofAddress, ofAsset) ==
    /\ AgreesWithChain(chain, ofAddress)
    /\ AgreesWithChain(chain, ofAsset)
    /\ AgreesWithChain(ofAddress, ofAsset)
CheckRule(r) ==
    /\ rule[r].pc # "checked"
    /\ \E chain \in Chains \cup {None}, named \in BOOLEAN, asset \in Assets \cup {None} :
         /\ named => Exists
         /\ Consistent(chain, IF named THEN address.chain ELSE None,
                              IF asset = None THEN None ELSE ChainOf(asset))
         /\ rule' = [rule EXCEPT ![r] =
              [pc |-> "checked", chain |-> chain, named |-> named, asset |-> asset, epoch |-> epoch]]
    /\ UNCHANGED <<address, editor, binder, scan, epoch, faults, mixed>>
\* create_notification_rule, update_notification_rule: the address must be there.
SaveRule(r) ==
    /\ rule[r].pc = "checked" /\ Moving = {}
    /\ rule' = [rule EXCEPT ![r] = IF rule[r].named /\ ~Exists THEN NoRule ELSE [@ EXCEPT !.pc = "saved"]]
    /\ UNCHANGED <<address, editor, binder, scan, epoch, faults, mixed>>

Next ==
    \/ \E e \in Editors : UpdateRow(e) \/ DeleteAssets(e) \/ InsertAssets(e)
    \/ \E b \in Binders : FindAddress(b) \/ Activate(b) \/ BindAsset(b) \/ CommitBinding(b)
    \/ \E s \in Scans : ReadContext(s) \/ ReadAssets(s)
    \/ \E r \in Rules : CheckRule(r) \/ SaveRule(r)
    \/ DeleteAddress \/ Rollback

Spec == Init /\ [][Next]_vars

-----------------------------------------------------------------------------
TypeOK ==
    /\ address.chain \in Chains /\ address.assets \subseteq Assets
    /\ address.status \in {"none", "active", "paused"}
    /\ \A e \in Editors : editor[e].pc \in {"idle", "delete", "insert"}
    /\ epoch \in 0..MaxMoves

\* An address has assets, of its own chain, unless an assignment bound those of
\* the chain it found the address on after a move had committed.
SelectionBelongs ==
    Exists /\ ~mixed => address.assets # {} /\ address.assets \subseteq AssetsOf[address.chain]

\* A scan looks for the assets of the chain it scans, unless the address moved
\* between its two reads.
ScanIsOfOneChain ==
    \A s \in Scans :
      scan[s].pc = "scanning" /\ scan[s].read = scan[s].selected /\ ~mixed =>
          scan[s].assets \subseteq AssetsOf[scan[s].chain]

\* notification_rule_matches_event, of what a rule and an event name.
Matches(r, event) ==
    /\ rule[r].chain \in {None, event.chain}
    /\ rule[r].asset \in {None, event.asset}

\* A rule that names the address matches some event of the chain the address is
\* on, unless the address moved since the rule was checked: which assets the
\* address selects is not looked at.
RuleCanMatch ==
    \A r \in Rules :
      rule[r].pc = "saved" /\ rule[r].named /\ rule[r].epoch = epoch =>
        \E a \in AssetsOf[address.chain] : Matches(r, [chain |-> address.chain, asset |-> a])
=============================================================================
