----------------------------- MODULE MCTronScan -----------------------------
(* One TRX transfer and a newer one, scanned again after a scan that ended   *)
(* between its inserts and its cursor.                                       *)
EXTENDS TronScan

MCTransfers == {[id |-> i, asset |-> Native, decodable |-> TRUE] : i \in 1..2}
=============================================================================
