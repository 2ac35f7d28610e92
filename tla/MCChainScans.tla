---------------------------- MODULE MCChainScans ----------------------------
(* The instances of the parts of ChainScans for TLC, and their fairness.     *)
EXTENDS ChainScans

Log(token, ways, decodable) == [token |-> token, ways |-> ways, decodable |-> decodable]

\* One scan after another, while the user changes the selection.
MCSequential ==
    [scanners |-> {"s1"}, tokens |-> {"x", "y"}, native |-> "eth",
     selections |-> {{"x"}, {"x", "y"}},
     transfers |-> {Log("x", {"incoming", "outgoing"}, TRUE), Log("y", {"incoming"}, FALSE)},
     balances |-> {5}, maxBlock |-> 3, maxLag |-> 1, confirmations |-> 1,
     initialWindow |-> 2, maxSpan |-> 1, maxFaults |-> 1]

\* Two scans that overlap, of either the balance or the transfers.
MCOverlapping ==
    [scanners |-> {"s1", "s2"}, tokens |-> {"x"}, native |-> "eth",
     selections |-> {{"eth"}, {"x"}},
     transfers |-> {Log("x", {"incoming", "outgoing"}, TRUE)},
     balances |-> {5, 7}, maxBlock |-> 1, maxLag |-> 0, confirmations |-> 0,
     initialWindow |-> 2, maxSpan |-> 1, maxFaults |-> 1]

Payload(id, asset, decodable) == [id |-> id, asset |-> asset, decodable |-> decodable]

MCShared ==
    [scanners |-> {"s1"}, native |-> "trx", tokens |-> {"x", "y"},
     transfers |-> {Payload(1, "trx", TRUE), Payload(2, "trx", TRUE), Payload(3, "x", TRUE),
                    Payload(4, "y", TRUE)},
     maxTime |-> 3, pageSize |-> 1, maxPages |-> 1, maxFaults |-> 1]

MCSole ==
    [scanners |-> {"s1"}, native |-> "trx", tokens |-> {"x"},
     transfers |-> {Payload(1, "trx", TRUE), Payload(2, "trx", FALSE), Payload(3, "x", TRUE),
                    Payload(4, "x", FALSE)},
     maxTime |-> 3, pageSize |-> 1, maxPages |-> 2, maxFaults |-> 1]

MCBitcoin ==
    [scanners |-> {"s1"}, transactions |-> 1..4, maxBlock |-> 2,
     pageSize |-> 1, maxPages |-> 3, overlap |-> 1, maxFaults |-> 1]

MCProviders ==
    [scanners |-> {"s1", "s2"}, all |-> 1..2, stable |-> {2}, limit |-> 1, threshold |-> 2,
     cooldown |-> 2, keyTTL |-> 1, maxAge |-> 1, maxFaults |-> 1]

\* The fairness of the parts.
FirstScans ==
    \/ part = "evm" /\ Evm!ScanStep("s1") /\ EvmRest
    \/ part = "tron" /\ Tron!ScanStep("s1") /\ TronRest
    \/ part = "btc" /\ Btc!ScanStep("s1") /\ BtcRest
    \/ part = "pool" /\ Pool!ScanStep("s1") /\ PoolRest
SecondScans == part = "pool" /\ Pool!ScanStep("s2") /\ PoolRest
ClockTicks == part = "pool" /\ Pool!Tick /\ PoolRest

FairSpec == /\ Spec
            /\ WF_all(FirstScans) /\ WF_all(SecondScans) /\ WF_all(ClockTicks)

\* Each confirmed transfer becomes an event in the end, on the three chains, or
\* one of the documented obstacles stands in its way: the initial window, the
\* page limit, a payload that does not decode. And one provider that answers keeps
\* the scans of its chain succeeding, whatever the failover, the limits and the
\* circuits do with the others.
ScansGetThrough ==
    /\ []<>~(\/ part = "evm" /\ Evm!Owed
             \/ part = "tron" /\ Tron!Owed
             \/ part = "btc" /\ Btc!Owed)
    /\ []<>(part = "pool" => \E s \in {"s1", "s2"} : scanner[s].result = "ok")
=============================================================================
