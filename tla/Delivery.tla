------------------------------ MODULE Delivery ------------------------------
(***************************************************************************)
(* What a scanner promises the application, whatever its goroutines and    *)
(* channels: a transaction that it has to come to stays pending until it   *)
(* is handed to the application or discarded.  Failures take nothing away; *)
(* a transaction is given up only when a run resumes at a start block at   *)
(* or above its own, and start blocks are those of transactions that have  *)
(* been handed over.  Polling implements this specification.               *)
(***************************************************************************)
EXTENDS Naturals

CONSTANTS Chains, Tx, NoTx, ChainOf, BlockOf, ReceiptBlock, InitBlock,
          Workers \* what hands transactions over: pairs <<chain, number>>

VARIABLES
  head,        \* per chain: the last block mined
  startBlock,  \* per chain: the stored start block
  pending,     \* transactions the scan has in hand or will come to
  handed,      \* per worker: handed over, its block not stored yet
  distributed, \* how often a transaction was handed over
  discarded    \* transactions found failed or refused by the application

vars == <<head, startBlock, pending, handed, distributed, discarded>>

Init ==
  /\ head = [ch \in Chains |-> 0]
  /\ startBlock = [ch \in Chains |-> 0]
  /\ pending = Tx
  /\ handed = [w \in Workers |-> NoTx]
  /\ distributed = [tx \in Tx |-> 0]
  /\ discarded = {}

Settled(tx) == distributed[tx] > 0 \/ tx \in discarded

Mine(ch) ==
  /\ head' = [head EXCEPT ![ch] = @ + 1]
  /\ UNCHANGED <<startBlock, pending, handed, distributed, discarded>>

(* A run reads the start block, or takes InitBlock for lack of one.  What  *)
(* it may pass over lies at or below it.                                   *)
Resume(ch) ==
  LET from == IF startBlock[ch] > 0 THEN startBlock[ch] ELSE InitBlock
  IN  /\ \E passed \in SUBSET {tx \in pending : ChainOf[tx] = ch /\ BlockOf[tx] <= from} :
           pending' = pending \ passed
      /\ UNCHANGED <<head, startBlock, handed, distributed, discarded>>

(* The transaction is of a block that has been mined, and neither unknown  *)
(* to the scan nor given up before.                                        *)
Due(tx) == BlockOf[tx] <= head[ChainOf[tx]] /\ (tx \in pending \/ Settled(tx))

Distribute(w, tx) ==
  /\ Due(tx) /\ ChainOf[tx] = w[1] /\ handed[w] = NoTx
  /\ distributed' = [distributed EXCEPT ![tx] = @ + 1]
  /\ pending' = pending \ {tx}
  /\ handed' = [handed EXCEPT ![w] = tx]
  /\ UNCHANGED <<head, startBlock, discarded>>

Discard(tx) ==
  /\ Due(tx)
  /\ discarded' = discarded \cup {tx}
  /\ pending' = pending \ {tx}
  /\ UNCHANGED <<head, startBlock, handed, distributed>>

SetStartBlock(w) ==
  /\ handed[w] # NoTx
  /\ startBlock' = [startBlock EXCEPT ![w[1]] = ReceiptBlock[handed[w]]]
  /\ handed' = [handed EXCEPT ![w] = NoTx]
  /\ UNCHANGED <<head, pending, distributed, discarded>>

(* The scan of a chain fails: the next run has all before it again.        *)
Panic(ch) ==
  /\ pending' = pending \cup {tx \in Tx : ChainOf[tx] = ch /\ ~Settled(tx)}
  /\ UNCHANGED <<head, startBlock, handed, distributed, discarded>>

(* The process ends: start blocks due are not stored any more.             *)
Crash ==
  /\ pending' = {tx \in Tx : ~Settled(tx)}
  /\ handed' = [w \in Workers |-> NoTx]
  /\ UNCHANGED <<head, startBlock, distributed, discarded>>

Next ==
  \/ \E ch \in Chains : Mine(ch) \/ Resume(ch) \/ Panic(ch)
  \/ \E w \in Workers : SetStartBlock(w) \/ \E tx \in Tx : Distribute(w, tx)
  \/ \E tx \in Tx : Discard(tx)
  \/ Crash

Spec == Init /\ [][Next]_vars
=============================================================================
