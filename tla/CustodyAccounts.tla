-------------------------- MODULE CustodyAccounts --------------------------
(***************************************************************************)
(* Custody accounts: assign_custody_account claims an account of the pool  *)
(* or of a user, watches its address on every configured chain, inserts    *)
(* the assignment and marks the account, all in one transaction; the user  *)
(* may edit the same watched addresses meanwhile.  A transaction's writes  *)
(* stay with it until it commits; a row it wrote makes others wait.        *)
(***************************************************************************)
EXTENDS Naturals, FiniteSets

CONSTANTS
    Assigners,      \* calls of assign_custody_account that may be in flight
    Addresses,      \* normalized addresses; an account is known by its own
    Configs,        \* the configured chains of the account of an address
    Given,          \* source and status of the accounts that are created
    Refs,           \* business references
    MaxEdits,       \* bound on the user's edits of watched addresses
    MaxFaults,      \* bound on calls that end early
    None

Chains == UNION {Configs[a] : a \in Addresses}
Legacy(a) == CHOOSE c \in Configs[a] : TRUE

Assumptions ==
    /\ \A a \in Addresses : Configs[a] # {}
    /\ Given \subseteq [source : {"pool", "user"}, status : {"available", "assigned", "disabled"}]
    /\ MaxEdits \in Nat /\ MaxFaults \in Nat /\ None \notin Addresses \cup Refs

VARIABLES
    account,    \* custody_accounts; opened: the status it was created with
    assignment, \* custody_account_assignments by business_ref
    watched,    \* the watched address of each chain; bound: it has the
                \* configured assets
    assigner,   \* held: what the transaction did to each watched address;
                \* edited: chains the user edited since
    edits, faults

vars == <<account, assignment, watched, assigner, edits, faults>>

NoAccount == [source |-> "none", status |-> "none", opened |-> "none"]
Unwatched == [status |-> "none", bound |-> FALSE]
Idle == [pc |-> "idle", ref |-> None, account |-> None,
         todo |-> {}, held |-> [c \in Chains |-> "no"], edited |-> {}]

Init ==
    /\ account = [a \in Addresses |-> NoAccount]
    /\ assignment = [r \in Refs |-> [status |-> "none", account |-> None]]
    /\ watched = [a \in Addresses |-> [c \in Configs[a] |-> Unwatched]]
    /\ assigner = [t \in Assigners |-> Idle]
    /\ edits = 0 /\ faults = 0

Locked(a) == \E t \in Assigners : assigner[t].account = a
Assigned(a) == \E r \in Refs : assignment[r] = [status |-> "active", account |-> a]

\* create_custody_account; the unique address waits for an assignment's insert.
CreateAccount(a) ==
    /\ account[a] = NoAccount /\ ~Locked(a)
    /\ \E g \in Given :
         account' = [account EXCEPT ![a] =
                        [source |-> g.source, status |-> g.status, opened |-> g.status]]
    /\ UNCHANGED <<assignment, watched, assigner, edits, faults>>

\* assign_custody_account begins, perhaps as the retry of a call whose reply was
\* lost; a claim that fails leaves nothing behind.
Claims(t, r, a) ==
    /\ assigner[t].pc = "idle"
    /\ assigner' = [assigner EXCEPT ![t] =
         [Idle EXCEPT !.pc = "watch", !.ref = r, !.account = a, !.todo = Configs[a]]]
    /\ UNCHANGED <<account, assignment, watched, edits, faults>>

\* CLAIM_AVAILABLE_POOL_ACCOUNT_QUERY skips locked accounts; of several, any.
ClaimPoolAccount(t, r, a) ==
    /\ account[a].source = "pool" /\ account[a].status = "available" /\ ~Locked(a)
    /\ Claims(t, r, a)

\* The user's account is selected or inserted, after whoever holds it is done.
ClaimUserAccount(t, r, a) ==
    /\ ~Locked(a)
    /\ \/ account[a] = NoAccount
       \/ account[a].source = "user" /\ account[a].status # "disabled" /\ ~Assigned(a)
    /\ Claims(t, r, a)

Fails(t) == assigner' = [assigner EXCEPT ![t] = Idle]

\* ensure_watched_address_for_chain_config.
Effect(row) ==
    CASE row.status = "none" -> "created"
      [] row.status = "paused" -> "reactivated"
      [] row.status = "active" -> IF row.bound THEN "unchanged" ELSE "bound"
After(row, effect) ==
    CASE effect \in {"created", "reactivated"} -> [status |-> "active", bound |-> TRUE]
      [] effect = "bound" -> [row EXCEPT !.bound = TRUE]
      [] OTHER -> row

EnsureWatched(t) ==
    /\ assigner[t].pc = "watch"
    /\ \E c \in assigner[t].todo :
         assigner' = [assigner EXCEPT ![t].todo = @ \ {c},
                        ![t].held[c] = Effect(watched[assigner[t].account][c])]
    /\ UNCHANGED <<account, assignment, watched, edits, faults>>

\* The unique business_ref waits for another transaction's insert of it; the
\* reference to the watched address of the legacy chain must still be good.
\* A faulty insert: a reference may be used again.
RefTakenNever(r) == FALSE
RefTaken(r) == assignment[r].status # "none"
Gone(t, a) == After(watched[a][Legacy(a)], assigner[t].held[Legacy(a)]).status = "none"
InsertAssignment(t) ==
    LET a == assigner[t].account
        r == assigner[t].ref
    IN /\ assigner[t].pc = "watch" /\ assigner[t].todo = {}
       /\ \A u \in Assigners : assigner[u].pc = "commit" => assigner[u].ref # r
       /\ IF RefTaken(r) \/ Assigned(a) \/ Gone(t, a) THEN Fails(t)
          ELSE assigner' = [assigner EXCEPT ![t].pc = "commit"]
       /\ UNCHANGED <<account, assignment, watched, edits, faults>>

\* MARK_CUSTODY_ACCOUNT_ASSIGNED and COMMIT.  The reply may be lost.
Commit(t) ==
    LET a == assigner[t].account
    IN /\ assigner[t].pc = "commit"
       /\ account' = [account EXCEPT ![a] =
            IF @ = NoAccount THEN [source |-> "user", status |-> "assigned", opened |-> "assigned"]
            ELSE [@ EXCEPT !.status = "assigned"]]
       /\ assignment' = [assignment EXCEPT ![assigner[t].ref] = [status |-> "active", account |-> a]]
       /\ watched' = [watched EXCEPT ![a] =
                        [c \in Configs[a] |-> After(@[c], assigner[t].held[c])]]
       /\ Fails(t)
       /\ UNCHANGED <<edits, faults>>

Rollback(t) ==
    /\ assigner[t].pc # "idle" /\ faults < MaxFaults
    /\ faults' = faults + 1
    /\ Fails(t)
    /\ UNCHANGED <<account, assignment, watched, edits>>

\* release_custody_assignment: both updates, after whoever holds the account.
MarkReleased(a) ==
    account' = [account EXCEPT ![a].status =
                  IF account[a].source = "pool" THEN "available" ELSE @]
Release(r) ==
    /\ assignment[r].status = "active" /\ ~Locked(assignment[r].account)
    /\ assignment' = [assignment EXCEPT ![r].status = "released"]
    /\ MarkReleased(assignment[r].account)
    /\ UNCHANGED <<watched, assigner, edits, faults>>

\* The user creates, edits or deletes a watched address where no transaction's
\* write is in the way.
Touches(a, c) ==
    {t \in Assigners : assigner[t].account = a /\ assigner[t].held[c] # "no"}
Effects(a, c) == {assigner[t].held[c] : t \in Touches(a, c)}
Edit(a, c) ==
    /\ edits < MaxEdits
    /\ \E row \in [status : {"none", "active", "paused"}, bound : BOOLEAN] :
         /\ row # watched[a][c]
         /\ row.status = "none" => row = Unwatched /\ "bound" \notin Effects(a, c)
         /\ watched' = [watched EXCEPT ![a][c] = row]
    /\ Effects(a, c) \cap {"created", "reactivated"} = {}
    /\ assigner' = [t \in Assigners |->
         IF t \in Touches(a, c) THEN [assigner[t] EXCEPT !.edited = @ \cup {c}] ELSE assigner[t]]
    /\ edits' = edits + 1
    /\ UNCHANGED <<account, assignment, faults>>

AssignStep(t) ==
    \/ \E r \in Refs, a \in Addresses : ClaimPoolAccount(t, r, a) \/ ClaimUserAccount(t, r, a)
    \/ EnsureWatched(t) \/ InsertAssignment(t) \/ Commit(t)

Next ==
    \/ \E a \in Addresses : CreateAccount(a) \/ \E c \in Configs[a] : Edit(a, c)
    \/ \E t \in Assigners : AssignStep(t) \/ Rollback(t)
    \/ \E r \in Refs : Release(r)

Spec == Init /\ [][Next]_vars

-----------------------------------------------------------------------------
TypeOK ==
    /\ account \in [Addresses -> [source : {"none", "pool", "user"},
                                  status : {"none", "available", "assigned", "disabled"},
                                  opened : {"none", "available", "assigned", "disabled"}]]
    /\ assignment \in [Refs -> [status : {"none", "active", "released"},
                                account : Addresses \cup {None}]]
    /\ \A a \in Addresses : \A c \in Configs[a] :
         watched[a][c].status = "none" => ~watched[a][c].bound

\* An account serves one business reference at a time, and the pool offers
\* exactly the accounts that serve none.
PoolIsHonest ==
    /\ \A q, r \in Refs : assignment[q].status = "active" /\ assignment[q] = assignment[r] => q = r
    /\ \A a \in Addresses :
         account[a].source = "pool" =>
           (account[a].status # account[a].opened <=> Assigned(a))

\* Once assigned, a reference stays with its account, whoever retries it.
AssignedOnce(r) ==
    assignment[r].status # "none" => /\ assignment'[r].account = assignment[r].account
                                     /\ assignment[r].status = "released" => UNCHANGED assignment[r]

\* When an assignment commits, its address is watched on every configured chain
\* with the configured assets, but for what the user changed in between.
WatchedAtCommit(t) ==
    LET a == assigner[t].account
        r == assigner[t].ref
    IN assigner[t].pc = "commit" /\ assignment'[r] # assignment[r] =>
         \A c \in Configs[a] \ assigner[t].edited :
             watched'[a][c] = [status |-> "active", bound |-> TRUE]
=============================================================================
