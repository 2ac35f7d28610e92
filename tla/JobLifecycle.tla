---------------------------- MODULE JobLifecycle ----------------------------
(***************************************************************************)
(* What the durable scan queue promises, without leases, owners, clocks or *)
(* processes: a job is held for one try after another, at most Limit of    *)
(* them; each try gets one verdict; and only the latest try can end the    *)
(* job well, at the same instant as its own verdict turns good.            *)
(***************************************************************************)
EXTENDS Naturals

CONSTANTS
    Jobs,
    Limit,      \* tries a job may get, at least one
    Forgetful   \* whether who does a try may not learn that its step was taken

VARIABLES phase, tries, verdict

lifecycle == <<phase, tries, verdict>>

Tries == 1..Limit
Phase == {"none", "waiting", "held", "done", "dead", "gone"}
Verdict == {"none", "open", "good", "bad", "gone"}

Init ==
    /\ phase = [j \in Jobs |-> "none"]
    /\ tries = [j \in Jobs |-> 0]
    /\ verdict = [j \in Jobs |-> [n \in Tries |-> "none"]]

\* The verdict of the try each of these jobs is held for, if open, turns bad; a
\* try that was forsaken keeps its open verdict.
CloseLatest(js) ==
    [j \in Jobs |-> [n \in Tries |->
        IF j \in js /\ phase[j] = "held" /\ n = tries[j] /\ verdict[j][n] = "open"
        THEN "bad" ELSE verdict[j][n]]]

Exhausted(j) == phase[j] = "held" /\ tries[j] = Limit

Submit(j) ==
    /\ phase[j] = "none"
    /\ phase' = [phase EXCEPT ![j] = "waiting"]
    /\ UNCHANGED <<tries, verdict>>

\* Hold the jobs of granted for a new try, and bury exhausted ones for good.
Dispatch(granted, buried) ==
    /\ \A j \in granted : phase[j] \in {"waiting", "held"} /\ tries[j] < Limit
    /\ \A j \in buried : Exhausted(j)
    /\ phase' = [j \in Jobs |-> IF j \in buried THEN "dead"
                                ELSE IF j \in granted THEN "held" ELSE phase[j]]
    /\ tries' = [j \in Jobs |-> IF j \in granted THEN tries[j] + 1 ELSE tries[j]]
    /\ verdict' = CloseLatest(granted \cup buried)

Open(j) ==
    /\ phase[j] = "held"
    /\ verdict[j][tries[j]] = "none"
    /\ verdict' = [verdict EXCEPT ![j][tries[j]] = "open"]
    /\ UNCHANGED <<phase, tries>>

Succeed(j) ==
    /\ phase[j] = "held"
    /\ verdict[j][tries[j]] = "open"
    /\ phase' = [phase EXCEPT ![j] = "done"]
    /\ verdict' = [verdict EXCEPT ![j][tries[j]] = "good"]
    /\ UNCHANGED tries

\* The try failed: the job waits for the next one, or it was the last.
Fail(j) ==
    /\ phase[j] = "held"
    /\ phase' = [phase EXCEPT ![j] = IF Exhausted(j) THEN "dead" ELSE "waiting"]
    /\ verdict' = CloseLatest({j})
    /\ UNCHANGED tries

\* The try is given up while the job stays held, until it is dispatched again.
Disown(j) ==
    /\ phase[j] = "held"
    /\ verdict[j][tries[j]] = "open"
    /\ verdict' = CloseLatest({j})
    /\ UNCHANGED <<phase, tries>>

\* The holder gives the job back without knowing that its try was opened.
Forsake(j) ==
    /\ Forgetful
    /\ phase[j] = "held"
    /\ verdict[j][tries[j]] = "open"
    /\ phase' = [phase EXCEPT ![j] = IF Exhausted(j) THEN "dead" ELSE "waiting"]
    /\ UNCHANGED <<tries, verdict>>

\* The holder of a try that ended the job well does not know it did.
Recant(j) ==
    /\ Forgetful
    /\ phase[j] = "done"
    /\ verdict[j][tries[j]] = "good"
    /\ verdict' = [verdict EXCEPT ![j][tries[j]] = "bad"]
    /\ UNCHANGED <<phase, tries>>

Remove(js) ==
    /\ phase' = [j \in Jobs |-> IF j \in js THEN "gone" ELSE phase[j]]
    /\ tries' = [j \in Jobs |-> IF j \in js THEN 0 ELSE tries[j]]
    /\ verdict' = [j \in Jobs |-> IF j \in js THEN [n \in Tries |-> "gone"]
                                  ELSE verdict[j]]

Next ==
    \/ \E j \in Jobs : Submit(j) \/ Open(j) \/ Succeed(j) \/ Fail(j) \/ Disown(j)
    \/ \E j \in Jobs : Forsake(j) \/ Recant(j)
    \/ \E granted, buried \in SUBSET Jobs : Dispatch(granted, buried)
    \/ \E js \in SUBSET Jobs : Remove(js)

Spec == Init /\ [][Next]_lifecycle
=============================================================================
