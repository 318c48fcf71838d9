------------------------------ MODULE MCClicks ------------------------------
(* Two wallets trade in one transaction, one of them in two markets.        *)
EXTENDS Clicks, TLC

CONSTANTS a1, a2, a3, t1, w1, w2, m1, m2

MCAlerts == {a1, a2, a3}
MCTx == [a \in MCAlerts |-> t1]
MCWallet == [a \in MCAlerts |-> IF a = a3 THEN w2 ELSE w1]
MCMarket == [a \in MCAlerts |-> IF a = a2 THEN m2 ELSE m1]
MCCategory == [a \in MCAlerts |-> IF a = a2 THEN {"crypto", "nba"} ELSE {"nba"}]

Alike == Permutations(Requests)
=============================================================================
