---------------------------- MODULE ProviderPool ----------------------------
(***************************************************************************)
(* How the scans of a chain share its RPC providers: candidates whose      *)
(* circuit is closed in order of priority, a token of the provider's rate  *)
(* limit for each attempt, failover on an availability error, and the      *)
(* circuit in provider_health.  A scan uses one reading of the clock, that *)
(* of its claim, for all of it; times are counted from now.                *)
(***************************************************************************)
EXTENDS Integers, FiniteSetsExt

CONSTANTS
    Scanners,
    Providers,      \* numbers, in order of priority and name
    Stable,         \* providers that stay active and answer
    Limit,          \* qps_limit
    Threshold,      \* PROVIDER_CIRCUIT_FAILURE_THRESHOLD
    Cooldown,       \* PROVIDER_CIRCUIT_COOLDOWN_SECONDS
    KeyTTL,         \* seconds a counter lives after its last INCR
    MaxAge,         \* bound on the seconds a scan may take
    MaxFaults       \* bound on scans that end on another error

Assumptions ==
    /\ Providers \subseteq Nat /\ Stable \subseteq Providers
    /\ {Limit, Threshold, Cooldown, KeyTTL} \subseteq Nat \ {0}
    /\ MaxAge \in Nat

VARIABLES
    active,     \* providers with status active
    health,     \* consecutive_failures and the seconds until disabled_until
    key,        \* provider:qps counters by the age of their second
    scanner,
    faults,
    streak,     \* history: failures recorded since the last success
    admitted    \* history: attempts made in time for their second's counter

vars == <<active, health, key, scanner, faults, streak, admitted>>

Ages == 0..MaxAge
NoKey == [count |-> 0, ttl |-> 0]
IdleScan == [pc |-> "idle", age |-> 0, candidates |-> {}, result |-> "none"]

Init ==
    /\ active = Providers
    /\ health = [p \in Providers |-> [failures |-> 0, disabled |-> 0]]
    /\ key = [p \in Providers |-> [a \in Ages |-> NoKey]]
    /\ scanner = [s \in Scanners |-> IdleScan]
    /\ faults = 0
    /\ streak = [p \in Providers |-> 0]
    /\ admitted = [p \in Providers |-> [a \in Ages |-> 0]]

Busy(s) == scanner[s].pc # "idle"

\* A second goes by: circuits cool down, counters grow old and expire. Those that
\* no scan at work was claimed with are of no more use.
InUse(a) == a = 0 \/ \E s \in Scanners : Busy(s) /\ scanner[s].age = a - 1
Aged(k) == IF k.ttl <= 1 THEN NoKey ELSE [k EXCEPT !.ttl = @ - 1]
Shifted(f, first) == [a \in Ages |-> IF a = 0 \/ ~InUse(a) THEN first ELSE f[a - 1]]
Tick ==
    /\ \A s \in Scanners : Busy(s) => scanner[s].age < MaxAge
    /\ health' = [p \in Providers |->
                    [health[p] EXCEPT !.disabled = Max({@ - 1, 0})]]
    /\ key' = [p \in Providers |-> Shifted([a \in Ages |-> Aged(key[p][a])], NoKey)]
    /\ admitted' = [p \in Providers |-> Shifted(admitted[p], 0)]
    /\ scanner' = [s \in Scanners |->
                     IF Busy(s) THEN [scanner[s] EXCEPT !.age = @ + 1] ELSE scanner[s]]
    /\ UNCHANGED <<active, faults, streak>>

\* update_provider.
SetStatus(p) ==
    /\ p \notin Stable
    /\ active' = IF p \in active THEN active \ {p} ELSE active \cup {p}
    /\ UNCHANGED <<health, key, scanner, faults, streak, admitted>>

\* active_rpc_provider_candidates at the time of the claim.
CircuitOpen(p) == health[p].disabled > 0
Candidates == {p \in active : ~CircuitOpen(p)}

Begin(s) ==
    /\ ~Busy(s)
    /\ scanner' = [scanner EXCEPT ![s] =
         IF Candidates = {} THEN [IdleScan EXCEPT !.result = "failed"]
         ELSE [IdleScan EXCEPT !.pc = "acquire", !.candidates = Candidates]]
    /\ UNCHANGED <<active, health, key, faults, streak, admitted>>

\* The candidates are tried in their order. After the last one:
\* provider_attempts_exhausted_error.
Candidate(s) == Min(scanner[s].candidates)
\* A faulty failover: there is none.
NextCandidateNone(s) == [IdleScan EXCEPT !.result = "failed"]
NextCandidate(s) ==
    IF scanner[s].candidates = {Candidate(s)} THEN [IdleScan EXCEPT !.result = "failed"]
    ELSE [scanner[s] EXCEPT !.pc = "acquire", !.candidates = @ \ {Candidate(s)}]

\* INCR and EXPIRE of the counter of the claim's second, whenever that was.
Incremented(k) == [count |-> Min({k.count + 1, Limit + 1}), ttl |-> KeyTTL]
\* A faulty limit, one too many.
PermitsOneMore(k) == k.count <= Limit
Permits(k) == Incremented(k).count <= Limit

Acquire(s) ==
    LET p == Candidate(s)
        a == scanner[s].age
    IN /\ scanner[s].pc = "acquire"
       /\ key' = [key EXCEPT ![p][a] = Incremented(@)]
       /\ IF Permits(key[p][a])
          THEN /\ scanner' = [scanner EXCEPT ![s].pc = "request"]
               /\ admitted' = [admitted EXCEPT ![p][a] = IF a < KeyTTL THEN @ + 1 ELSE @]
          ELSE /\ scanner' = [scanner EXCEPT ![s] = NextCandidate(s)]
               /\ UNCHANGED admitted
       /\ UNCHANGED <<active, health, faults, streak>>

\* RECORD_PROVIDER_SUCCESS_QUERY and RECORD_PROVIDER_FAILURE_QUERY; the scan
\* goes on where the statement fails.
\* A faulty success: the count of failures stays.
RecordSuccessOnly(p) ==
    /\ health' = [health EXCEPT ![p].disabled = 0]
    /\ streak' = [streak EXCEPT ![p] = 0]
RecordSuccess(p) ==
    /\ health' = [health EXCEPT ![p] = [failures |-> 0, disabled |-> 0]]
    /\ streak' = [streak EXCEPT ![p] = 0]

FailureRecorded(h, age) ==
    [failures |-> Min({h.failures + 1, Threshold}),
     disabled |-> IF h.failures + 1 >= Threshold THEN Max({Cooldown - age, 0}) ELSE h.disabled]

RecordFailure(p, age) ==
    /\ health' = [health EXCEPT ![p] = FailureRecorded(@, age)]
    /\ streak' = [streak EXCEPT ![p] = Min({@ + 1, Threshold})]

Succeeds(s) ==
    /\ scanner[s].pc = "request"
    /\ RecordSuccess(Candidate(s))
    /\ scanner' = [scanner EXCEPT ![s] = [IdleScan EXCEPT !.result = "ok"]]
    /\ UNCHANGED <<active, key, faults, admitted>>

\* is_provider_availability_error.
IsUnavailable(s) ==
    /\ scanner[s].pc = "request"
    /\ Candidate(s) \notin Stable
    /\ RecordFailure(Candidate(s), scanner[s].age)
    /\ scanner' = [scanner EXCEPT ![s] = NextCandidate(s)]
    /\ UNCHANGED <<active, key, faults, admitted>>

\* The record of an attempt is not written: the scan goes on.
RecordIsLost(s) ==
    /\ scanner[s].pc = "request"
    /\ \/ scanner' = [scanner EXCEPT ![s] = [IdleScan EXCEPT !.result = "ok"]]
       \/ /\ Candidate(s) \notin Stable
          /\ scanner' = [scanner EXCEPT ![s] = NextCandidate(s)]
    /\ UNCHANGED <<active, health, key, faults, streak, admitted>>

\* Redis, the database, or an answer that is not understood: no other candidate.
ScanFails(s) ==
    /\ Busy(s)
    /\ faults < MaxFaults
    /\ faults' = faults + 1
    /\ scanner' = [scanner EXCEPT ![s] = [IdleScan EXCEPT !.result = "failed"]]
    /\ UNCHANGED <<active, health, key, streak, admitted>>

ScanStep(s) == Begin(s) \/ Acquire(s) \/ Succeeds(s) \/ IsUnavailable(s) \/ RecordIsLost(s)

Next ==
    \/ Tick
    \/ \E p \in Providers : SetStatus(p)
    \/ \E s \in Scanners : ScanStep(s) \/ ScanFails(s)

Fairness == WF_vars(Tick) /\ \A s \in Scanners : WF_vars(ScanStep(s))

Spec == Init /\ [][Next]_vars /\ Fairness

-----------------------------------------------------------------------------
TypeOK ==
    /\ active \subseteq Providers
    /\ health \in [Providers -> [failures : 0..Threshold, disabled : 0..Cooldown]]
    /\ \A s \in Scanners : scanner[s].age \in Ages

\* A circuit is open only after as many failures in a row as it takes, in the
\* order in which the scans of all workers recorded them: a success between them,
\* of however old a scan, has closed it.
OpenCircuitHasItsFailures == \A p \in Providers : CircuitOpen(p) => streak[p] >= Threshold

\* Of the scans claimed in one second by all workers, no more than the limit use
\* a provider while the counter of that second is certain to be there.
WithinRateLimit == \A p \in Providers, a \in Ages : admitted[p][a] <= Limit

\* A provider that answers keeps the chain scanned: however the others flap, run
\* into their limits, are switched off or hold their circuits open, scans go on
\* succeeding.
ScansGoOnSucceeding ==
    Stable # {} => []<>(\E s \in Scanners : scanner[s].result = "ok")
=============================================================================
