----------------------------- MODULE MCServices -----------------------------
(* The parameters of the services, and the fairness of each.               *)
EXTENDS Services

\* An account of two chains and one of a single chain.
MCCustodian ==
    [assigners |-> {"t1", "t2"}, addresses |-> {"a1", "a2"}, refs |-> {"r1", "r2"},
     configs |-> [a \in {"a1", "a2"} |-> IF a = "a1" THEN {"c1", "c2"} ELSE {"c1"}],
     given |-> {[source |-> "pool", status |-> "available"], [source |-> "user", status |-> "assigned"]},
     maxEdits |-> 1, maxFaults |-> 1]

\* Two pollers of one bot; one poller and a webhook.
MCPolled ==
    [requests |-> {"r1"}, pollers |-> {"p1", "p2"}, hooks |-> {}, maxUpdates |-> 2, maxFaults |-> 1]
MCHooked ==
    [requests |-> {"r1"}, pollers |-> {"p1"}, hooks |-> {"h1"}, maxUpdates |-> 2, maxFaults |-> 1]

MCConnected ==
    [tenants |-> {"t1", "t2"}, sockets |-> {"s1", "s2"},
     tenantOf |-> [s \in {"s1", "s2"} |-> IF s = "s2" THEN "t2" ELSE "t1"],
     maxPosted |-> 4, maxFaults |-> 1, bufferSize |-> 2]

\* The chain replaces the block of the transaction, which fails in the new one.
Reorganised == <<[base |-> 1, ok |-> TRUE], [base |-> 2, ok |-> FALSE]>>
Log(n, from, to) == [n |-> n, token |-> "x", from |-> from, to |-> to]
RescansOf(rescans, logs, maxEdits) ==
    [rescans |-> rescans, addresses |-> {"a", "b"}, native |-> "eth", tokens |-> {"x"},
     from |-> "a", to |-> "b", value |-> 1, logs |-> logs,
     inclusions |-> Reorganised, maxEdits |-> maxEdits, maxFaults |-> 1]

\* Two rescans at once; one rescan while the user edits the addresses.
MCRescanned == {RescansOf({"r1", "r2"}, {Log(0, "a", "b")}, 0),
                RescansOf({"r1"}, {Log(0, "a", "b"), Log(1, "b", "z")}, 1)}

\* A tick is fifteen seconds.
MCDeployment ==
    [order |-> <<"server", "worker", "realtime">>, server |-> "server", listener |-> "realtime",
     names |-> {"worker"}, interval |-> 2, staleAfter |-> 6, maxTicks |-> 8, maxFaults |-> 3]

MCWoken ==
    [workers |-> {"w1", "w2"}, producers |-> {"p1", "p2"}, maxJobs |-> 3, legacy |-> 1, maxFaults |-> 2]

MCSettings ==
    [tokens |-> {"t1", "t2"}, good |-> {"t1"}, verifiers |-> {"v1", "v2"},
     resolvers |-> {"r1", "r2"}, channels |-> 1..2, maxEdits |-> 2]

\* An edit, an assignment and a scan of one address; an edit and a rule about it.
Edits(binders, scans, rules, maxMoves, maxFaults) ==
    [chains |-> {"c1", "c2"}, assetsOf |-> [c \in {"c1", "c2"} |-> IF c = "c1" THEN {"x", "y"} ELSE {"z"}],
     editors |-> {"e1"}, binders |-> binders, scans |-> scans, rules |-> rules,
     maxMoves |-> maxMoves, maxFaults |-> maxFaults]
MCRelocated == {Edits({"b1"}, {"s1"}, {}, 1, 1), Edits({}, {}, {"r1"}, 2, 0)}

MCDigits == [base |-> 3, maxLength |-> 3]

\* The fairness of the parts: one condition serves an action of each.
Fair1 ==
    \/ part = "pollers" /\ Polling!LockAges /\ TelegramRest
    \/ part = "webhook" /\ Webhook!LockAges /\ TelegramRest
    \/ part = "realtime" /\ Push!Connect /\ RealtimeRest
    \/ part = "supervisor" /\ AllInOne!MainStep /\ SupervisorRest
    \/ part = "wake" /\ Wake!WorkerStep("w1") /\ WakeRest
Fair2 ==
    \/ part = "pollers" /\ Polling!PollStep("p1") /\ TelegramRest
    \/ part = "webhook" /\ Webhook!PollStep("p1") /\ TelegramRest
    \/ part = "realtime" /\ Push!Listen /\ RealtimeRest
    \/ part = "supervisor" /\ AllInOne!Ends("server") /\ SupervisorRest
    \/ part = "wake" /\ Wake!WorkerStep("w2") /\ WakeRest
Fair3 ==
    \/ part = "pollers" /\ Polling!PollStep("p2") /\ TelegramRest
    \/ part = "realtime" /\ Push!ListenerEnds /\ RealtimeRest
    \/ part = "supervisor" /\ AllInOne!Ends("worker") /\ SupervisorRest
Fair4 ==
    \/ part = "realtime" /\ Push!Send("s1") /\ RealtimeRest
    \/ part = "supervisor" /\ AllInOne!Ends("realtime") /\ SupervisorRest
Fair5 ==
    \/ part = "realtime" /\ Push!Send("s2") /\ RealtimeRest
    \/ part = "supervisor" /\ AllInOne!HeartbeatStep("worker") /\ SupervisorRest

FairSpec == /\ Spec
            /\ WF_all(Fair1) /\ WF_all(Fair2) /\ WF_all(Fair3) /\ WF_all(Fair4) /\ WF_all(Fair5)

-----------------------------------------------------------------------------
\* Every update is processed, every open socket and every due job is served, and
\* all-in-one ends once it began to, whoever failed or died before.
EverythingIsServed ==
    []<>~(\/ part = "pollers" /\ Polling!Owed
          \/ part = "webhook" /\ Webhook!Owed
          \/ part = "realtime" /\ Push!Owed
          \/ part = "supervisor" /\ AllInOne!Owed
          \/ part = "wake" /\ Wake!Owed)
=============================================================================
