----------------------------- MODULE MCPolling -----------------------------
(* Small instances of Polling. *)
EXTENDS Polling

CONSTANTS eth, tron, t1, t2, t3

(* One chain, two transactions in a block and one in the next.             *)
OneChain == {eth}
AllEth == [tx \in Tx |-> eth]
Blocks223 == [tx \in Tx |-> IF tx = t3 THEN 3 ELSE 2]
Plain == [tx \in Tx |-> "0x01"]
(* t2's BlockNumber does not parse.                                        *)
Unparsed == [tx \in Tx |-> IF tx = t2 THEN 0 ELSE BlockOf[tx]]

(* t2 reverted, t3 failed.                                                 *)
Reverted == [tx \in Tx |->
               CASE tx = t1 -> "0x01" [] tx = t2 -> "0x00" [] OTHER -> "Fail"]
Parsed == [tx \in Tx |-> BlockOf[tx]]

(* Two chains on one channel.                                              *)
TwoChains == {eth, tron}
Split == [tx \in Tx |-> IF tx = t3 THEN tron ELSE eth]
AllOne == [tx \in Tx |-> 1]
=============================================================================
