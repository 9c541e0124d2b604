--------------------------- MODULE PollingProofs ---------------------------
(* Proofs about Polling, for every set of chains and transactions, every   *)
(* capacity of newTxn and every number of blocks and runs: its types, that *)
(* nothing is lost silently, and when the start block moves back.          *)
EXTENDS Polling, TLAPS

(* A consumer past its receive holds a transaction.                        *)
Holding ==
  \A c \in Consumers :
    cpc[c] \in {"check", "requeue", "checkpoint"} => txn[c] \in Tx

(* Only the runs counted so far have consumers, and a recovered producer   *)
(* may start one more.                                                     *)
FreshRuns ==
  /\ \A ch \in Chains : pc[ch] = "recovered" => run[ch] < MaxRuns
  /\ \A c \in Consumers : c[2] > run[c[1]] => cpc[c] = "none"

TypeInv == TypeOK /\ Holding /\ FreshRuns

-----------------------------------------------------------------------------
(* Arithmetic of block numbers.                                            *)
LEMMA StepUp == ASSUME NEW a \in Nat, NEW b \in Nat, a < b PROVE a + 1 <= b
  OBVIOUS

LEMMA Strict == ASSUME NEW a \in Nat, NEW b \in Nat, a <= b, a # b PROVE a < b
  OBVIOUS

LEMMA AtMostItself == ASSUME NEW a \in Nat PROVE a <= a
  OBVIOUS

LEMMA Below ==
  ASSUME NEW a \in Nat, NEW b \in Nat, NEW c \in Nat, a <= b, b < c
  PROVE  a < c
  OBVIOUS

LEMMA GreaterBounds ==
  ASSUME NEW a \in Nat, NEW b \in Nat
  PROVE  Greater(a, b) \in Nat /\ a <= Greater(a, b) /\ b <= Greater(a, b)
  BY DEF Greater

(* Appending to the channel keeps what is on it and adds one element.      *)
LEMMA AppendQueue ==
  ASSUME NEW S, NEW q \in Seq(S), NEW e \in S
  PROVE  /\ Append(q, e) \in Seq(S)
         /\ Len(Append(q, e)) = Len(q) + 1
         /\ \A n \in 1 .. Len(q) : Append(q, e)[n] = q[n]
         /\ Append(q, e)[Len(q) + 1] = e
  OBVIOUS

(* Taking the head off the channel keeps every other element.              *)
LEMMA TailQueue ==
  ASSUME NEW S, NEW q \in Seq(S), q # <<>>
  PROVE  /\ Head(q) \in S
         /\ Head(q) = q[1]
         /\ Tail(q) \in Seq(S)
         /\ Len(q) \in Nat /\ Len(q) # 0 /\ Len(Tail(q)) = Len(q) - 1
         /\ \A n \in 1 .. Len(q) : n = 1 \/ (n - 1 \in 1 .. Len(Tail(q))
                                              /\ Tail(q)[n - 1] = q[n])
         /\ \A n \in 1 .. Len(q) - 1 : Tail(q)[n] = q[n + 1]
  OBVIOUS

(* The end of a block's turn in the inner loop keeps the types.            *)
LEMMA NextBlockTypes ==
  ASSUME TypeOK, NEW ch \in Chains, NextBlock(ch)
  PROVE  /\ pc' \in [Chains -> {"poll", "scan", "send", "done", "recovered"}]
         /\ blk' \in [Chains -> Nat]
         /\ currentBlockNum' \in [Chains -> Nat]
<1>1. CASE blk[ch] < chainCurrentBlockNum[ch]
  <2>1. /\ pc' = [pc EXCEPT ![ch] = "scan"]
        /\ blk' = [blk EXCEPT ![ch] = @ + 1]
        /\ UNCHANGED currentBlockNum
    BY <1>1 DEF TypeOK, NextBlock
  <2> QED
    BY <2>1 DEF TypeOK
<1>2. CASE ~(blk[ch] < chainCurrentBlockNum[ch])
  <2>1. /\ pc' = [pc EXCEPT ![ch] = "poll"]
        /\ currentBlockNum' = [currentBlockNum EXCEPT
                                 ![ch] = chainCurrentBlockNum[ch]]
        /\ UNCHANGED blk
    BY <1>2 DEF NextBlock
  <2> QED
    BY <2>1 DEF TypeOK
<1> QED
  BY <1>1, <1>2

(* WipeBlock starts well typed, with one idle consumer per chain.          *)
LEMMA InitTypeInv == Init => TypeInv
  BY PollingAssumptions DEF Init, TypeInv, TypeOK, Holding, FreshRuns, Consumers

(* Every step of producers, consumers and supervisor keeps the types, that a *)
(* busy consumer holds a transaction, and that later runs have no consumer. *)
LEMMA NextTypeInv == TypeInv /\ [Next]_vars => TypeInv'
<1> SUFFICES ASSUME TypeInv, [Next]_vars PROVE TypeInv'
  OBVIOUS
<1> USE PollingAssumptions DEF TypeInv, TypeOK, Holding, FreshRuns
<1>1. ASSUME NEW ch \in Chains, NewBlock(ch) PROVE TypeInv'
  <2>1. head' \in [Chains -> 0 .. MaxBlock]
    BY SMTT(30), <1>1 DEF NewBlock
  <2>t. TypeOK'
    BY Zenon, <1>1, <2>1 DEF NewBlock, producerVars, consumerVars, historyVars
  <2>h. Holding'
    BY <1>1 DEF NewBlock, producerVars, consumerVars, historyVars
  <2>f. FreshRuns'
    BY <1>1 DEF NewBlock, producerVars, consumerVars, historyVars
  <2> QED
    BY Zenon, <2>t, <2>h, <2>f
<1>2. ASSUME NEW ch \in Chains, Cancel(ch) PROVE TypeInv'
  BY Zenon, <1>2 DEF Cancel, producerVars, consumerVars, historyVars
<1>3. ASSUME NEW ch \in Chains, Poll(ch) PROVE TypeInv'
  <2>1. /\ currentBlockNum' \in [Chains -> Nat]
        /\ resumedAt' \in [Chains -> Nat]
    BY <1>3 DEF Poll, PollAt, ResumePoint, Greater
  <2>2. /\ pc' \in [Chains -> {"poll", "scan", "send", "done", "recovered"}]
        /\ blk' \in [Chains -> Nat]
        /\ chainCurrentBlockNum' \in [Chains -> Nat]
    <3>1. PICK n \in 1 .. head[ch] : PollAt(ch, n)
      BY <1>3 DEF Poll
    <3>2. n \in Nat /\ ResumePoint(ch) \in Nat
      BY DEF ResumePoint
    <3>3. CASE UNCHANGED <<pc, blk, chainCurrentBlockNum>>
      BY <3>3
    <3>4. CASE ~UNCHANGED <<pc, blk, chainCurrentBlockNum>>
      <4>1. PICK b \in Nat :
              /\ pc' = [pc EXCEPT ![ch] = "scan"]
              /\ blk' = [blk EXCEPT ![ch] = b + 1]
              /\ chainCurrentBlockNum' = [chainCurrentBlockNum EXCEPT ![ch] = n]
        BY Zenon, <3>1, <3>2, <3>4 DEF PollAt
      <4> QED
        BY <3>2, <4>1
    <3> QED
      BY Zenon, <3>3, <3>4
  <2>t. TypeOK'
    BY Zenon, <1>3, <2>1, <2>2 DEF Poll, PollAt, ResumePoint, Greater, consumerVars
  <2>h. Holding'
    BY <1>3 DEF Poll, PollAt, ResumePoint, Greater, consumerVars
  <2>f. FreshRuns'
    BY ZenonT(40), <1>3 DEF Poll, PollAt, ResumePoint, Greater, consumerVars
  <2> QED
    BY Zenon, <2>t, <2>h, <2>f
<1>4. ASSUME NEW ch \in Chains, Scan(ch) PROVE TypeInv'
  <2>1. /\ pc' \in [Chains -> {"poll", "scan", "send", "done", "recovered"}]
        /\ blk' \in [Chains -> Nat]
        /\ currentBlockNum' \in [Chains -> Nat]
    <3>1. CASE FilterTrans(ch, blk[ch]) = {}
      BY Zenon, <1>4, <3>1, NextBlockTypes DEF Scan
    <3>2. CASE FilterTrans(ch, blk[ch]) # {}
      <4>1. /\ pc' = [pc EXCEPT ![ch] = "send"]
            /\ UNCHANGED <<blk, currentBlockNum>>
        BY <1>4, <3>2 DEF Scan
      <4> QED
        BY <4>1
    <3> QED
      BY Zenon, <3>1, <3>2
  <2>2. txIDs' \in [Chains -> SUBSET Tx]
    <3>1. FilterTrans(ch, blk[ch]) \in SUBSET Tx
      BY DEF FilterTrans
    <3> QED
      BY ZenonT(40), <1>4, <3>1 DEF Scan
  <2>t. TypeOK'
    BY Zenon, <1>4, <2>1, <2>2 DEF Scan, NextBlock, FilterTrans, consumerVars, historyVars
  <2>h. Holding'
    BY <1>4 DEF Scan, NextBlock, FilterTrans, consumerVars, historyVars
  <2>f. FreshRuns'
    BY ZenonT(40), <1>4 DEF Scan, NextBlock, FilterTrans, consumerVars, historyVars
  <2> QED
    BY Zenon, <2>t, <2>h, <2>f
<1>5. ASSUME NEW ch \in Chains, Send(ch) PROVE TypeInv'
  <2>1. PICK tx \in txIDs[ch] : newTxn' = Append(newTxn, tx)
    BY Zenon, <1>5 DEF Send
  <2>2. newTxn' \in Seq(Tx) /\ Len(newTxn') <= ChanCap
    BY <1>5, <2>1, AppendQueue DEF Send
  <2>3. /\ pc' \in [Chains -> {"poll", "scan", "send", "done", "recovered"}]
        /\ blk' \in [Chains -> Nat]
        /\ currentBlockNum' \in [Chains -> Nat]
    BY Zenon, <1>5, NextBlockTypes DEF Send
  <2>4. txIDs' \in [Chains -> SUBSET Tx]
    <3>1. PICK e \in txIDs[ch] : txIDs' = [txIDs EXCEPT ![ch] = @ \ {e}]
      BY Zenon, <1>5 DEF Send
    <3>2. txIDs[ch] \ {e} \in SUBSET Tx
      OBVIOUS
    <3> QED
      BY Zenon, <3>1, <3>2
  <2>t. TypeOK'
    BY Zenon, <1>5, <2>2, <2>3, <2>4 DEF Send, NextBlock, consumerVars, historyVars
  <2>h. Holding'
    BY <1>5, <2>2 DEF Send, NextBlock, consumerVars, historyVars
  <2>f. FreshRuns'
    BY ZenonT(40), <1>5, <2>2 DEF Send, NextBlock, consumerVars, historyVars
  <2> QED
    BY Zenon, <2>t, <2>h, <2>f
<1>6. ASSUME NEW ch \in Chains, Return(ch) PROVE TypeInv'
  BY Zenon, <1>6 DEF Return, consumerVars, historyVars
<1>7. ASSUME NEW ch \in Chains, Panic(ch) PROVE TypeInv'
  BY Zenon, <1>7 DEF Panic, consumerVars, historyVars
<1>8. ASSUME NEW ch \in Chains, Restart(ch) PROVE TypeInv'
  <2>1. <<ch, run[ch] + 1>> \in Consumers
    BY <1>8 DEF Restart, Consumers
  <2>t. TypeOK'
    BY Zenon, <1>8, <2>1 DEF Restart, historyVars, Consumers
  <2>h. Holding'
    BY <1>8, <2>1 DEF Restart, historyVars, Consumers
  <2>f. FreshRuns'
    <3>1. \A x \in Chains : pc'[x] = "recovered" => run'[x] < MaxRuns
      BY <1>8 DEF Restart
    <3>2. ASSUME NEW c \in Consumers, c[2] > run'[c[1]] PROVE cpc'[c] = "none"
      <4>1. c[1] \in Chains /\ c[2] \in Nat
        BY DEF Consumers
      <4>2. c[2] > run[c[1]] /\ c # <<ch, run[ch] + 1>>
        <5>1. run'[c[1]] = IF c[1] = ch THEN run[ch] + 1 ELSE run[c[1]]
          BY Zenon, <1>8, <4>1 DEF Restart
        <5>2. c[2] > run[c[1]]
          <6>1. run[c[1]] \in Nat /\ run[ch] \in Nat
            <7>1. \A x \in Chains : run[x] \in 1 .. MaxRuns
              OBVIOUS
            <7>2. 1 .. MaxRuns \subseteq Nat
              OBVIOUS
            <7> QED
              BY ONLY <4>1, <7>1, <7>2, ch \in Chains
          <6>2. CASE c[1] = ch
            BY SMTT(30), <3>2, <4>1, <5>1, <6>1, <6>2
          <6>3. CASE c[1] # ch
            BY <3>2, <5>1, <6>3
          <6> QED
            BY <6>2, <6>3
        <5>3. c[1] # ch \/ c[2] # run[ch] + 1
          BY <3>2, <4>1, <5>1
        <5> QED
          BY <5>2, <5>3
      <4> QED
        BY <1>8, <4>2 DEF Restart
    <3> QED
      BY Zenon, <3>1, <3>2
  <2> QED
    BY Zenon, <2>t, <2>h, <2>f
<1>9. ASSUME NEW c \in Consumers, Recv(c) PROVE TypeInv'
  <2>1. newTxn' \in Seq(Tx) /\ Len(newTxn') <= ChanCap /\ Head(newTxn) \in Tx
    BY <1>9, TailQueue DEF Recv
  <2> QED
    BY Zenon, <1>9, <2>1 DEF Recv, producerVars, historyVars
<1>10. ASSUME NEW c \in Consumers, Stop(c) PROVE TypeInv'
  BY SMTT(30), <1>10 DEF Stop, producerVars, historyVars
<1>11. ASSUME NEW c \in Consumers, NoReceipt(c) PROVE TypeInv'
  BY Zenon, <1>11 DEF NoReceipt, producerVars
<1>12. ASSUME NEW c \in Consumers, Requeue(c) PROVE TypeInv'
  <2>1. newTxn' \in Seq(Tx) /\ Len(newTxn') <= ChanCap
    BY SMTT(30), <1>12, AppendQueue DEF Requeue
  <2> QED
    BY Zenon, <1>12, <2>1 DEF Requeue, Idle, producerVars, historyVars
<1>13. ASSUME NEW c \in Consumers, DropFailed(c) PROVE TypeInv'
  <2>1. discarded' \subseteq Tx /\ txn' \in [Consumers -> Tx \cup {NoTx}]
    BY SMTT(30), <1>13 DEF DropFailed, Idle
  <2>t. TypeOK'
    BY Zenon, <1>13, <2>1 DEF DropFailed, Idle, producerVars
  <2>h. Holding'
    BY <1>13 DEF DropFailed, Idle, producerVars
  <2>f. FreshRuns'
    BY <1>13 DEF DropFailed, Idle, producerVars
  <2> QED
    BY <2>t, <2>h, <2>f
<1>14. ASSUME NEW c \in Consumers, Refuse(c) PROVE TypeInv'
  <2>1. discarded' \subseteq Tx /\ txn' \in [Consumers -> Tx \cup {NoTx}]
    BY SMTT(30), <1>14 DEF Refuse, Idle
  <2>t. TypeOK'
    BY Zenon, <1>14, <2>1 DEF Refuse, Idle, producerVars
  <2>h. Holding'
    BY <1>14 DEF Refuse, Idle, producerVars
  <2>f. FreshRuns'
    BY <1>14 DEF Refuse, Idle, producerVars
  <2> QED
    BY <2>t, <2>h, <2>f
<1>15. ASSUME NEW c \in Consumers, Distribute(c) PROVE TypeInv'
  <2>1. distributed' \in [Tx -> Nat]
    BY SMTT(30), <1>15 DEF Distribute
  <2>t. TypeOK'
    BY Zenon, <1>15, <2>1 DEF Distribute, producerVars
  <2>h. Holding'
    BY <1>15 DEF Distribute, producerVars
  <2>f. FreshRuns'
    BY <1>15 DEF Distribute, producerVars
  <2> QED
    BY <2>t, <2>h, <2>f
<1>16. ASSUME NEW c \in Consumers, SetStartBlock(c) PROVE TypeInv'
  <2>1. c[1] \in Chains /\ txn[c] \in Tx
    BY <1>16 DEF SetStartBlock, Consumers
  <2>2. startBlock' \in [Chains -> Nat]
    BY <1>16, <2>1 DEF SetStartBlock
  <2>t. TypeOK'
    BY Zenon, <1>16, <2>2 DEF SetStartBlock, Idle, producerVars, historyVars
  <2>h. Holding'
    BY <1>16 DEF SetStartBlock, Idle
  <2>f. FreshRuns'
    BY Zenon, <1>16 DEF SetStartBlock, Idle, producerVars
  <2> QED
    BY <2>t, <2>h, <2>f
<1>17. CASE Crash
  BY SMTT(30), <1>17 DEF Crash, historyVars, Consumers
<1>18. CASE UNCHANGED vars
  BY Zenon, <1>18 DEF vars, producerVars, consumerVars, historyVars
<1> QED
  BY Zenon, <1>1, <1>2, <1>3, <1>4, <1>5, <1>6, <1>7, <1>8, <1>9, <1>10, <1>11,
     <1>12, <1>13, <1>14, <1>15, <1>16, <1>17, <1>18
     DEF Next, Producer, Consumer, Settle

(* The variables of the scanner keep their types: in particular the        *)
(* channel never holds more than its capacity, and WipeBlock is never      *)
(* called more often than the bound on the runs allows.                    *)
THEOREM TypeCorrect == Spec => []TypeOK
<1>1. Init => TypeInv
  BY InitTypeInv
<1>2. TypeInv /\ [Next]_vars => TypeInv'
  BY NextTypeInv
<1>3. TypeInv => TypeOK
  BY DEF TypeInv
<1> QED
  BY <1>1, <1>2, <1>3, PTL DEF Spec

-----------------------------------------------------------------------------
(* What an action leaves alone.  A transaction settled stays so; one that  *)
(* is on an untouched or longer channel stays queued; the rest is local.   *)
LEMMA SettledStays ==
  ASSUME TypeInv, NEW tx \in Tx, Settled(tx),
         UNCHANGED <<distributed, discarded>>
  PROVE  Settled(tx)'
  BY DEF Settled

(* What is on a channel nobody touches stays queued.                       *)
LEMMA QueuedStays ==
  ASSUME TypeInv, NEW tx \in Tx, Queued(tx), UNCHANGED newTxn
  PROVE  Queued(tx)'
  BY DEF Queued

(* What a consumer holds stays held while no consumer moves.               *)
LEMMA HeldStays ==
  ASSUME TypeInv, NEW tx \in Tx, Held(tx), UNCHANGED consumerVars
  PROVE  Held(tx)'
  BY DEF Held, consumerVars

(* What the producer has in hand or ahead stays so while it does not move. *)
LEMMA ProducerStays ==
  ASSUME TypeInv, NEW tx \in Tx, Sending(tx) \/ Ahead(tx),
         UNCHANGED producerVars
  PROVE  (Sending(tx) \/ Ahead(tx))'
  BY DEF Sending, Ahead, producerVars

(* A step of another chain's producer does not touch this chain's.         *)
LEMMA OtherProducer ==
  ASSUME TypeInv, NEW tx \in Tx, Sending(tx) \/ Ahead(tx),
         NEW ch \in Chains, ChainOf[tx] # ch,
         Poll(ch) \/ Scan(ch) \/ Send(ch) \/ Return(ch) \/ Panic(ch) \/ Restart(ch)
  PROVE  (Sending(tx) \/ Ahead(tx))'
<1>1. ChainOf[tx] \in Chains
  BY Zenon, PollingAssumptions
<1>2. /\ pc'[ChainOf[tx]] = pc[ChainOf[tx]]
      /\ currentBlockNum'[ChainOf[tx]] = currentBlockNum[ChainOf[tx]]
      /\ blk'[ChainOf[tx]] = blk[ChainOf[tx]]
      /\ txIDs'[ChainOf[tx]] = txIDs[ChainOf[tx]]
  <2>0. /\ pc \in [Chains -> {"poll", "scan", "send", "done", "recovered"}]
        /\ currentBlockNum \in [Chains -> Nat]
        /\ blk \in [Chains -> Nat]
        /\ txIDs \in [Chains -> SUBSET Tx]
    BY Zenon DEF TypeInv, TypeOK
  <2>1. CASE Poll(ch)
    BY Zenon, <1>1, <2>0, <2>1 DEF Poll, PollAt
  <2>2. CASE Scan(ch)
    BY Zenon, <1>1, <2>0, <2>2 DEF Scan, NextBlock
  <2>3. CASE Send(ch)
    BY <1>1, <2>0, <2>3 DEF Send, NextBlock
  <2>4. CASE Return(ch) \/ Panic(ch) \/ Restart(ch)
    BY Zenon, <1>1, <2>0, <2>4 DEF Return, Panic, Restart
  <2> QED
    BY <2>1, <2>2, <2>3, <2>4
<1> QED
  BY <1>2 DEF Sending, Ahead

(* A send to newTxn keeps what is queued and queues the transaction sent.  *)
LEMMA AppendStays ==
  ASSUME TypeInv, NEW tx \in Tx, NEW e \in Tx, newTxn' = Append(newTxn, e)
  PROVE  (Queued(tx) => Queued(tx)') /\ Queued(e)'
<1>1. newTxn \in Seq(Tx)
  BY DEF TypeInv, TypeOK
<1>2. /\ Len(newTxn') = Len(newTxn) + 1
      /\ \A n \in 1 .. Len(newTxn) : newTxn'[n] = newTxn[n]
      /\ newTxn'[Len(newTxn) + 1] = e
  BY <1>1, AppendQueue
<1>3. Len(newTxn) \in Nat
  BY <1>1
<1> QED
  BY <1>2, <1>3 DEF Queued

(* A consumer's step leaves what the other consumers hold.                 *)
LEMMA OtherConsumer ==
  ASSUME TypeInv, NEW tx \in Tx, NEW c \in Consumers,
         NEW d \in Consumers, d # c,
         cpc[d] \in {"check", "requeue"}, txn[d] = tx,
         \E p, t : cpc' = [cpc EXCEPT ![c] = p] /\ txn' = [txn EXCEPT ![c] = t]
  PROVE  Held(tx)'
  BY DEF TypeInv, TypeOK, Held

(* The consumer's step c takes from tx to hold at most into settlement or  *)
(* back onto the channel.                                                  *)
LEMMA ConsumerAccounts ==
  ASSUME TypeInv, NEW tx \in Tx, Accounted(tx), NEW c \in Consumers, Consumer(c)
  PROVE  Accounted(tx)'
<1> USE DEF Accounted
<1>1. CASE Sending(tx) \/ Ahead(tx)
  <2>1. UNCHANGED producerVars
    BY DEF Consumer, Settle, Recv, Stop, NoReceipt, Requeue, DropFailed, Refuse,
           Distribute, SetStartBlock
  <2> QED
    BY Zenon, <1>1, <2>1, ProducerStays
<1>2. CASE Settled(tx)
  <2>1. CASE Distribute(c)
    <3>1. distributed \in [Tx -> Nat]
      BY Zenon DEF TypeInv, TypeOK
    <3>2. /\ distributed' = [distributed EXCEPT ![txn[c]] = @ + 1]
          /\ discarded' = discarded
      BY <2>1 DEF Distribute
    <3>3. distributed[tx] > 0 => distributed'[tx] > 0
      BY <3>1, <3>2
    <3> QED
      BY <1>2, <3>2, <3>3 DEF Settled
  <2>2. CASE ~Distribute(c)
    <3>1. UNCHANGED distributed /\ discarded \subseteq discarded'
      BY <2>2 DEF Consumer, Settle, Recv, Stop, NoReceipt, Requeue, DropFailed,
                  Refuse, SetStartBlock, historyVars
    <3> QED
      BY Zenon, <1>2, <3>1 DEF Settled
  <2> QED
    BY <2>1, <2>2
<1>3. CASE Queued(tx)
  <2>1. CASE Recv(c)
    <3>1. PICK n \in 1 .. Len(newTxn) : newTxn[n] = tx
      BY <1>3 DEF Queued
    <3>2. newTxn \in Seq(Tx) /\ newTxn # <<>> /\ newTxn' = Tail(newTxn)
      BY <2>1 DEF Recv, TypeInv, TypeOK
    <3>3. CASE n = 1
      <4>1. Head(newTxn) = tx
        BY <3>1, <3>2, <3>3, TailQueue
      <4>2. cpc'[c] = "check" /\ txn'[c] = tx
        BY Zenon, <2>1, <4>1 DEF Recv, TypeInv, TypeOK
      <4> QED
        BY <4>2 DEF Held
    <3>4. CASE n # 1
      <4>1. n - 1 \in 1 .. Len(newTxn') /\ newTxn'[n - 1] = tx
        BY <3>1, <3>2, <3>4, TailQueue
      <4> QED
        BY <4>1 DEF Queued
    <3> QED
      BY <3>3, <3>4
  <2>2. CASE Requeue(c)
    <3>1. newTxn' = Append(newTxn, txn[c]) /\ txn[c] \in Tx
      BY <2>2 DEF Requeue, TypeInv, Holding
    <3> QED
      BY <1>3, <3>1, AppendStays
  <2>3. CASE ~Recv(c) /\ ~Requeue(c)
    <3>1. UNCHANGED newTxn
      BY <2>3 DEF Consumer, Settle, Stop, NoReceipt, DropFailed, Refuse,
                  Distribute, SetStartBlock
    <3> QED
      BY Zenon, <1>3, <3>1, QueuedStays
  <2> QED
    BY <2>1, <2>2, <2>3
<1>4. CASE Held(tx)
  <2>1. PICK d \in Consumers : cpc[d] \in {"check", "requeue"} /\ txn[d] = tx
    BY <1>4 DEF Held
  <2>2. CASE d # c
    <3>1. \E p, t : cpc' = [cpc EXCEPT ![c] = p] /\ txn' = [txn EXCEPT ![c] = t]
      <4>1. txn = [txn EXCEPT ![c] = txn[c]]
        BY DEF TypeInv, TypeOK
      <4> QED
        BY <4>1 DEF Consumer, Settle, Recv, Stop, NoReceipt, Requeue,
           DropFailed, Refuse, Distribute, SetStartBlock, Idle
    <3> QED
      BY Zenon, <2>1, <2>2, <3>1, OtherConsumer
  <2>3. CASE d = c
    <3>1. CASE Recv(c) \/ Stop(c) \/ SetStartBlock(c)
      BY SMTT(30), <2>1, <2>3, <3>1 DEF Recv, Stop, SetStartBlock
    <3>2. CASE NoReceipt(c)
      <4>1. cpc'[c] = "requeue" /\ txn'[c] = tx
        BY <2>1, <2>3, <3>2 DEF NoReceipt, TypeInv, TypeOK
      <4> QED
        BY Zenon, <4>1 DEF Held
    <3>3. CASE Requeue(c)
      <4>1. newTxn' = Append(newTxn, tx)
        BY Zenon, <2>1, <2>3, <3>3 DEF Requeue
      <4> QED
        BY <4>1, AppendStays
    <3>4. CASE DropFailed(c) \/ Refuse(c)
      BY Zenon, <2>1, <2>3, <3>4 DEF DropFailed, Refuse, Settled
    <3>5. CASE Distribute(c)
      <4>1. distributed \in [Tx -> Nat]
        BY DEF TypeInv, TypeOK
      <4>2. distributed' = [distributed EXCEPT ![tx] = @ + 1]
        BY Zenon, <2>1, <2>3, <3>5 DEF Distribute
      <4>3. distributed'[tx] > 0
        BY <4>1, <4>2
      <4> QED
        BY <4>3 DEF Settled
    <3> QED
      BY ZenonT(30), <3>1, <3>2, <3>3, <3>4, <3>5 DEF Consumer, Settle
  <2> QED
    BY <2>2, <2>3
<1> QED
  BY <1>1, <1>2, <1>3, <1>4

(* A step of the producer of tx's own chain.  Only the turn of the outer   *)
(* loop that reads the start block can pass tx by, and then it finds       *)
(* ResumePoint at or above tx's block.                                     *)
LEMMA OwnProducerAccounts ==
  ASSUME TypeInv, NEW tx \in Tx, NEW ch \in Chains, ChainOf[tx] = ch,
         Sending(tx) \/ Ahead(tx),
         Poll(ch) \/ Scan(ch) \/ Send(ch) \/ Return(ch) \/ Panic(ch) \/ Restart(ch),
         Poll(ch) /\ currentBlockNum[ch] = 0 => ResumePoint(ch) < BlockOf[tx]
  PROVE  Accounted(tx)'
<1> DEFINE b == BlockOf[tx]
<1>0. /\ b \in Nat /\ blk[ch] \in Nat /\ currentBlockNum[ch] \in Nat
      /\ chainCurrentBlockNum[ch] \in Nat
  BY ZenonT(30), PollingAssumptions DEF TypeInv, TypeOK
<1>f. /\ pc \in [Chains -> {"poll", "scan", "send", "done", "recovered"}]
      /\ currentBlockNum \in [Chains -> Nat]
      /\ blk \in [Chains -> Nat]
  BY Zenon DEF TypeInv, TypeOK
<1>1. ASSUME NextBlock(ch), blk[ch] < b PROVE Ahead(tx)'
  <2>1. CASE /\ pc' = [pc EXCEPT ![ch] = "scan"]
             /\ blk' = [blk EXCEPT ![ch] = @ + 1]
    <3>1. pc'[ch] = "scan" /\ blk'[ch] = blk[ch] + 1
      BY <1>f, <2>1
    <3>2. blk'[ch] <= b
      BY Zenon, <1>0, <1>1, <3>1, StepUp
    <3> QED
      BY Zenon, <3>1, <3>2 DEF Ahead
  <2>2. CASE /\ blk[ch] = chainCurrentBlockNum[ch]
             /\ pc' = [pc EXCEPT ![ch] = "poll"]
             /\ currentBlockNum' = [currentBlockNum EXCEPT
                                      ![ch] = chainCurrentBlockNum[ch]]
    <3>1. pc'[ch] = "poll" /\ currentBlockNum'[ch] = blk[ch]
      BY <1>f, <2>2
    <3> QED
      BY Zenon, <1>1, <3>1 DEF Ahead
  <2> QED
    BY Zenon, <1>1, <2>1, <2>2 DEF NextBlock
<1>2. CASE Poll(ch)
  <2>1. PICK n \in 1 .. head[ch] : PollAt(ch, n)
    BY Zenon, <1>2 DEF Poll
  <2> DEFINE cur == IF currentBlockNum[ch] = 0 THEN ResumePoint(ch)
                    ELSE currentBlockNum[ch]
  <2>2. cur \in Nat
    BY <1>0, PollingAssumptions DEF ResumePoint, TypeInv, TypeOK
  <2>3. cur < b
    <3>1. CASE currentBlockNum[ch] = 0
      BY Zenon, <1>2, <3>1
    <3>2. CASE currentBlockNum[ch] # 0
      <4>1. pc[ch] = "poll"
        BY <2>1 DEF PollAt
      <4> QED
        BY Zenon, <3>2, <4>1 DEF Sending, Ahead
    <3> QED
      BY <3>1, <3>2
  <2>4. currentBlockNum'[ch] = cur
    BY Zenon, <2>1 DEF PollAt, TypeInv, TypeOK
  <2>5. \/ pc'[ch] = "scan" /\ blk'[ch] = cur + 1
        \/ pc'[ch] = "poll"
    BY Zenon, <2>1, <2>2 DEF PollAt, TypeInv, TypeOK
  <2> HIDE DEF cur
  <2>6. Ahead(tx)'
    <3>1. CASE pc'[ch] = "scan" /\ blk'[ch] = cur + 1
      <4>1. blk'[ch] <= b
        BY ZenonT(30), <1>0, <2>2, <2>3, <3>1, StepUp
      <4> QED
        BY <3>1, <4>1 DEF Ahead
    <3>2. CASE pc'[ch] = "poll"
      <4>1. currentBlockNum'[ch] < b
        BY Zenon, <2>3, <2>4
      <4> QED
        BY Zenon, <3>2, <4>1 DEF Ahead
    <3> QED
      BY ZenonT(30), <2>5, <3>1, <3>2
  <2> QED
    BY Zenon, <2>6 DEF Accounted
<1>3. CASE Scan(ch)
  <2>1. blk[ch] <= b
    BY Zenon, <1>3 DEF Scan, Sending, Ahead
  <2>2. CASE FilterTrans(ch, blk[ch]) = {}
    <3>1. blk[ch] # b
      BY Zenon, <2>2 DEF FilterTrans
    <3>2. NextBlock(ch)
      BY Zenon, <1>3, <2>2 DEF Scan
    <3>3. blk[ch] < b
      BY Zenon, <1>0, <2>1, <3>1, Strict
    <3> QED
      BY Zenon, <1>1, <3>2, <3>3 DEF Accounted
  <2>3. CASE FilterTrans(ch, blk[ch]) # {}
    <3>1. /\ pc'[ch] = "send" /\ blk'[ch] = blk[ch]
          /\ txIDs'[ch] = FilterTrans(ch, blk[ch])
      BY Zenon, <1>3, <2>3 DEF Scan, TypeInv, TypeOK
    <3>2. CASE blk[ch] = b
      BY Zenon, <3>1, <3>2 DEF FilterTrans, Accounted, Sending
    <3>3. CASE blk[ch] # b
      <4>1. blk[ch] < b
        BY ZenonT(30), <1>0, <2>1, <3>3, Strict
      <4>2. Ahead(tx)'
        BY Zenon, <3>1, <4>1 DEF Ahead
      <4> QED
        BY <4>2 DEF Accounted
    <3> QED
      BY <3>2, <3>3
  <2> QED
    BY <2>2, <2>3
<1>4. CASE Send(ch)
  <2>1. PICK e \in txIDs[ch] :
          /\ newTxn' = Append(newTxn, e)
          /\ txIDs' = [txIDs EXCEPT ![ch] = @ \ {e}]
          /\ \/ txIDs[ch] = {e} /\ NextBlock(ch)
             \/ txIDs[ch] # {e} /\ UNCHANGED <<pc, blk, currentBlockNum>>
    BY Zenon, <1>4 DEF Send
  <2>2. e \in Tx /\ pc[ch] = "send"
    BY Zenon, <1>4 DEF Send, TypeInv, TypeOK
  <2>3. CASE tx = e
    BY Zenon, <2>1, <2>2, <2>3, AppendStays DEF Accounted
  <2>4. CASE tx # e /\ tx \in txIDs[ch]
    <3>1. tx \in txIDs'[ch] /\ pc'[ch] = "send"
      BY Zenon, <2>1, <2>2, <2>4 DEF TypeInv, TypeOK
    <3> QED
      BY Zenon, <3>1 DEF Accounted, Sending
  <2>5. CASE tx \notin txIDs[ch]
    <3>1. blk[ch] < b
      BY Zenon, <2>2, <2>5 DEF Sending, Ahead
    <3>2. CASE NextBlock(ch)
      BY <1>1, <3>1, <3>2 DEF Accounted
    <3>3. CASE UNCHANGED <<pc, blk, currentBlockNum>>
      BY Zenon, <2>2, <3>1, <3>3 DEF Accounted, Ahead
    <3> QED
      BY Zenon, <2>1, <3>2, <3>3
  <2> QED
    BY <2>3, <2>4, <2>5
<1>5. CASE Return(ch)
  <2>1. pc[ch] = "poll" /\ pc'[ch] = "done" /\ currentBlockNum' = currentBlockNum
    BY <1>5 DEF Return, TypeInv, TypeOK
  <2> QED
    BY ZenonT(30), <2>1 DEF Accounted, Sending, Ahead
<1>6. CASE Panic(ch)
  BY Zenon, <1>6 DEF Panic, Accounted, Ahead, TypeInv, TypeOK
<1>7. CASE Restart(ch)
  BY Zenon, <1>7 DEF Restart, Accounted, Ahead, TypeInv, TypeOK
<1> QED
  BY Zenon, <1>2, <1>3, <1>4, <1>5, <1>6, <1>7

(* A producer's step keeps what is settled, queued or held.                *)
LEMMA ProducerKeeps ==
  ASSUME TypeInv, NEW tx \in Tx, NEW ch \in Chains,
         Settled(tx) \/ Queued(tx) \/ Held(tx),
         Poll(ch) \/ Scan(ch) \/ Send(ch) \/ Return(ch) \/ Panic(ch) \/ Restart(ch)
  PROVE  Accounted(tx)'
<1> USE DEF Accounted
<1>1. CASE Settled(tx)
  <2>1. UNCHANGED <<distributed, discarded>>
    BY Zenon DEF Poll, PollAt, Scan, Send, Return, Panic, Restart, historyVars
  <2> QED
    BY <1>1, <2>1, SettledStays
<1>2. CASE Queued(tx)
  <2>1. CASE Send(ch)
    <3>1. PICK e \in txIDs[ch] : newTxn' = Append(newTxn, e)
      BY <2>1 DEF Send
    <3>2. e \in Tx
      BY DEF TypeInv, TypeOK
    <3> QED
      BY <1>2, <3>1, <3>2, AppendStays
  <2>2. CASE ~Send(ch)
    <3>1. UNCHANGED newTxn
      BY Zenon, <2>2 DEF Poll, PollAt, Scan, Return, Panic, Restart
    <3> QED
      BY <1>2, <3>1, QueuedStays
  <2> QED
    BY ZenonT(30), <2>1, <2>2
<1>3. CASE Held(tx)
  <2>1. CASE Restart(ch)
    <3>1. PICK c \in Consumers : cpc[c] \in {"check", "requeue"} /\ txn[c] = tx
      BY <1>3 DEF Held
    <3>2. run[ch] + 1 > run[ch] /\ <<ch, run[ch] + 1>> \in Consumers
      <4>1. run[ch] \in 1 .. MaxRuns /\ run[ch] < MaxRuns
        BY <2>1 DEF Restart, TypeInv, TypeOK, FreshRuns
      <4>2. run[ch] + 1 \in 1 .. MaxRuns /\ run[ch] + 1 > run[ch]
        BY SMTT(30), <4>1, PollingAssumptions
      <4> QED
        BY Zenon, <4>2 DEF Consumers
    <3>3. cpc[<<ch, run[ch] + 1>>] = "none"
      BY Zenon, <3>2 DEF TypeInv, FreshRuns
    <3>4. cpc'[c] = cpc[c] /\ txn'[c] = txn[c]
      BY Zenon, <2>1, <3>1, <3>3 DEF Restart, TypeInv, TypeOK
    <3> QED
      BY Zenon, <3>1, <3>4 DEF Held
  <2>2. CASE ~Restart(ch)
    <3>1. UNCHANGED consumerVars
      BY Zenon, <2>2 DEF Poll, PollAt, Scan, Send, Return, Panic
    <3> QED
      BY <1>3, <3>1, HeldStays
  <2> QED
    BY Zenon, <2>1, <2>2
<1> QED
  BY <1>1, <1>2, <1>3

(* The block a run resumes after is at most resumedAt from then on.        *)
LEMMA ResumesBelow ==
  ASSUME TypeInv, NEW ch \in Chains, Poll(ch), currentBlockNum[ch] = 0
  PROVE  /\ ResumePoint(ch) \in Nat /\ resumedAt'[ch] \in Nat
         /\ ResumePoint(ch) <= resumedAt'[ch]
<1>1. ResumePoint(ch) \in Nat
  BY PollingAssumptions DEF ResumePoint, TypeInv, TypeOK
<1>2. resumedAt \in [Chains -> Nat]
  BY DEF TypeInv, TypeOK
<1>3. resumedAt' = [resumedAt EXCEPT ![ch] = Greater(resumedAt[ch], ResumePoint(ch))]
  BY Zenon DEF Poll, PollAt
<1>4. resumedAt'[ch] = Greater(resumedAt[ch], ResumePoint(ch)) /\ resumedAt[ch] \in Nat
  BY <1>2, <1>3
<1> QED
  BY Zenon, <1>1, <1>4, GreaterBounds

(* resumedAt only grows.                                                   *)
LEMMA ResumedGrows ==
  ASSUME TypeInv, [Next]_vars, NEW ch \in Chains
  PROVE  resumedAt[ch] <= resumedAt'[ch]
<1>0. resumedAt[ch] \in Nat
  BY DEF TypeInv, TypeOK
<1>1. ASSUME NEW k \in Chains, Poll(k) PROVE resumedAt[ch] <= resumedAt'[ch]
  <2>1. PICK n \in 1 .. head[k] : PollAt(k, n)
    BY <1>1 DEF Poll
  <2>2. ResumePoint(k) \in Nat /\ currentBlockNum[k] \in Nat
    BY Zenon, PollingAssumptions DEF ResumePoint, TypeInv, TypeOK
  <2>3. resumedAt' = resumedAt
        \/ \E m \in Nat : resumedAt' = [resumedAt EXCEPT
                                         ![k] = Greater(resumedAt[k], m)]
    BY <2>1, <2>2 DEF PollAt
  <2>4. resumedAt'[ch] = resumedAt[ch]
        \/ \E m \in Nat : resumedAt'[ch] = Greater(resumedAt[ch], m)
    BY Zenon, <2>3 DEF TypeInv, TypeOK
  <2> QED
    BY Zenon, <1>0, <2>4, AtMostItself, GreaterBounds
<1>2. CASE ~\E k \in Chains : Poll(k)
  <2>1. resumedAt' = resumedAt
    BY Zenon, <1>2 DEF Next, Producer, Consumer, Settle, NewBlock, Cancel, Scan, Send,
       Return, Panic, Restart, Recv, Stop, NoReceipt, Requeue, DropFailed,
       Refuse, Distribute, SetStartBlock, Crash, vars, historyVars
  <2> QED
    BY <1>0, <2>1
<1> QED
  BY <1>1, <1>2

(* Every step accounts for every transaction above the blocks resumed after. *)
LEMMA NextNoSilentLoss ==
  TypeInv /\ NoSilentLoss /\ [Next]_vars => NoSilentLoss'
<1> SUFFICES ASSUME TypeInv, NoSilentLoss, [Next]_vars,
                    NEW tx \in Tx, resumedAt'[ChainOf[tx]] < BlockOf[tx]
             PROVE  Accounted(tx)'
  BY Zenon DEF NoSilentLoss
<1>0. ChainOf[tx] \in Chains /\ BlockOf[tx] \in Nat
  BY PollingAssumptions
<1>1. Accounted(tx)
  <2>1. resumedAt[ChainOf[tx]] <= resumedAt'[ChainOf[tx]]
    BY <1>0, ResumedGrows
  <2>2. resumedAt[ChainOf[tx]] \in Nat
    BY Zenon, <1>0 DEF TypeInv, TypeOK
  <2>3. resumedAt'[ChainOf[tx]] \in Nat
    BY Zenon, <1>0, NextTypeInv DEF TypeInv, TypeOK
  <2> QED
    BY <1>0, <2>1, <2>2, <2>3 DEF NoSilentLoss
<1>2. ASSUME NEW ch \in Chains, NewBlock(ch) \/ Cancel(ch) PROVE Accounted(tx)'
  <2>1. /\ UNCHANGED <<distributed, discarded>> /\ UNCHANGED newTxn
        /\ UNCHANGED consumerVars /\ UNCHANGED producerVars
    BY Zenon, <1>2 DEF NewBlock, Cancel, historyVars
  <2> QED
    BY Zenon, <1>1, <2>1, SettledStays, QueuedStays, HeldStays, ProducerStays
       DEF Accounted
<1>3. ASSUME NEW ch \in Chains, Producer(ch) \/ Panic(ch) \/ Restart(ch)
      PROVE  Accounted(tx)'
  <2>1. CASE Settled(tx) \/ Queued(tx) \/ Held(tx)
    BY <1>3, <2>1, ProducerKeeps DEF Producer
  <2>2. CASE Sending(tx) \/ Ahead(tx)
    <3>1. CASE ChainOf[tx] = ch
      <4>1. Poll(ch) /\ currentBlockNum[ch] = 0 => ResumePoint(ch) < BlockOf[tx]
        BY ZenonT(30), <1>0, <3>1, ResumesBelow, Below
      <4> QED
        BY <1>3, <2>2, <3>1, <4>1, OwnProducerAccounts DEF Producer
    <3>2. CASE ChainOf[tx] # ch
      BY <1>3, <2>2, <3>2, OtherProducer DEF Producer, Accounted
    <3> QED
      BY Zenon, <3>1, <3>2
  <2> QED
    BY <1>1, <2>1, <2>2 DEF Accounted
<1>4. ASSUME NEW c \in Consumers, Consumer(c) PROVE Accounted(tx)'
  BY Zenon, <1>1, <1>4, ConsumerAccounts
<1>5. CASE Crash
  BY Zenon, <1>0, <1>5 DEF Crash, Accounted, Ahead
<1>6. CASE UNCHANGED vars
  <2>1. /\ UNCHANGED <<distributed, discarded>> /\ UNCHANGED newTxn
        /\ UNCHANGED consumerVars /\ UNCHANGED producerVars
    BY <1>6 DEF vars, historyVars
  <2> QED
    BY <1>1, <2>1, SettledStays, QueuedStays, HeldStays, ProducerStays
       DEF Accounted
<1> QED
  BY Zenon, <1>2, <1>3, <1>4, <1>5, <1>6 DEF Next

(* No transaction above the block its chain's scan ever resumed after is   *)
(* lost, for any number of chains on the shared channel, any capacity, and *)
(* any interleaving of panics, restarts and crashes: WipeBlock together    *)
(* with StartScanChainEvents only loses what a start block it read back    *)
(* covers.                                                                 *)
THEOREM NothingSilentlyLost == Spec => []NoSilentLoss
<1>1. Init => TypeInv /\ NoSilentLoss
  <2>1. Init => NoSilentLoss
    BY SMTT(30), PollingAssumptions DEF Init, NoSilentLoss, Accounted, Ahead
  <2> QED
    BY Zenon, <2>1, InitTypeInv
<1>2. TypeInv /\ NoSilentLoss /\ [Next]_vars => (TypeInv /\ NoSilentLoss)'
  BY NextTypeInv, NextNoSilentLoss
<1> QED
  BY <1>1, <1>2, PTL DEF Spec

-----------------------------------------------------------------------------
(* The transactions in the producer's hands are those of its block.        *)
HandBlock ==
  \A ch \in Chains : pc[ch] = "send" =>
    \A tx \in txIDs[ch] : ChainOf[tx] = ch /\ BlockOf[tx] = blk[ch]

(* Past a block the producer is no longer in its sending loop.             *)
LEMMA NextBlockLeaves ==
  ASSUME TypeInv, NEW ch \in Chains, NextBlock(ch)
  PROVE  \/ pc'[ch] = "scan" /\ blk'[ch] = blk[ch] + 1
         \/ pc'[ch] = "poll" /\ currentBlockNum'[ch] = blk[ch]
  BY DEF NextBlock, TypeInv, TypeOK

(* The producer's hands hold the transactions of its block.                *)
LEMMA NextHandBlock == TypeInv /\ HandBlock /\ [Next]_vars => HandBlock'
<1> SUFFICES ASSUME TypeInv, HandBlock, [Next]_vars,
                    NEW k \in Chains, pc'[k] = "send", NEW tx \in txIDs'[k]
             PROVE  ChainOf[tx] = k /\ BlockOf[tx] = blk'[k]
  BY Zenon DEF HandBlock
<1>t. /\ txIDs \in [Chains -> SUBSET Tx] /\ blk \in [Chains -> Nat]
      /\ pc \in [Chains -> {"poll", "scan", "send", "done", "recovered"}]
  BY DEF TypeInv, TypeOK
<1>1. CASE pc[k] = "send" /\ tx \in txIDs[k] /\ blk'[k] = blk[k]
  BY Zenon, <1>1 DEF HandBlock
<1>2. ASSUME NEW ch \in Chains, ch # k,
             Poll(ch) \/ Scan(ch) \/ Send(ch) \/ Return(ch) \/ Panic(ch) \/ Restart(ch)
      PROVE  pc[k] = "send" /\ tx \in txIDs[k] /\ blk'[k] = blk[k]
  BY ZenonT(30), <1>t, <1>2 DEF Poll, PollAt, Scan, Send, NextBlock, Return, Panic, Restart
<1>3. CASE Poll(k) \/ Return(k) \/ Panic(k) \/ Restart(k)
  <2>1. pc'[k] # "send"
    BY ZenonT(30), <1>t, <1>3 DEF Poll, PollAt, Return, Panic, Restart
  <2> QED
    BY <2>1
<1>4. CASE Scan(k)
  <2>1. CASE NextBlock(k)
    BY Zenon, <2>1, NextBlockLeaves
  <2>2. CASE txIDs' = [txIDs EXCEPT ![k] = FilterTrans(k, blk[k])] /\ UNCHANGED blk
    BY Zenon, <1>t, <2>2 DEF FilterTrans
  <2> QED
    BY Zenon, <1>4, <2>1, <2>2 DEF Scan
<1>5. CASE Send(k)
  <2>1. CASE NextBlock(k)
    BY Zenon, <2>1, NextBlockLeaves
  <2>2. CASE UNCHANGED <<pc, blk>>
    <3>1. PICK e : txIDs' = [txIDs EXCEPT ![k] = txIDs[k] \ {e}]
      BY Zenon, <1>5 DEF Send
    <3>2. tx \in txIDs[k]
      BY <1>t, <3>1
    <3> QED
      BY Zenon, <1>1, <2>2, <3>2
  <2> QED
    BY Zenon, <1>5, <2>1, <2>2 DEF Send
<1>6. CASE Crash
  BY Zenon, <1>6 DEF Crash
<1>7. CASE UNCHANGED producerVars
  BY Zenon, <1>1, <1>7 DEF producerVars
<1>8. ASSUME NEW c \in Consumers, Consumer(c) PROVE UNCHANGED producerVars
  BY Zenon, <1>8 DEF Consumer, Settle, Recv, Stop, NoReceipt, Requeue, DropFailed, Refuse,
     Distribute, SetStartBlock
<1>9. ASSUME NEW ch \in Chains, NewBlock(ch) \/ Cancel(ch) PROVE UNCHANGED producerVars
  BY Zenon, <1>9 DEF NewBlock, Cancel
<1>10. CASE UNCHANGED vars
  BY Zenon, <1>7, <1>10 DEF vars
<1> QED
  BY Zenon, <1>1, <1>2, <1>3, <1>4, <1>5, <1>6, <1>7, <1>8, <1>9, <1>10 DEF Next, Producer

-----------------------------------------------------------------------------
(* The first run of a chain, in which the start block follows the scan.    *)

Busy(c) == cpc[c] \in {"check", "requeue", "checkpoint"}

(* Somebody has taken tx off the channel, and holds it or put it back.     *)
Taken(tx) == tx \in requeued \/ \E c \in Consumers : txn[c] = tx

FirstTry(tx) == run[ChainOf[tx]] = 1 /\ tx \notin requeued

(* The scan of ch has come to block b: it sends none of an earlier block.  *)
Reached(ch, b) ==
  /\ pc[ch] = "poll" => b <= currentBlockNum[ch]
  /\ pc[ch] = "scan" => b < blk[ch]
  /\ pc[ch] = "send" => b <= blk[ch]

(* Who is about to put a transaction back has marked it; who is about to   *)
(* store a block has distributed a transaction of its own chain.           *)
ConsumerMarks ==
  \A c \in Consumers :
    /\ cpc[c] = "requeue" => txn[c] \in requeued
    /\ cpc[c] = "checkpoint" => ChainOf[txn[c]] = c[1]

ScanReached ==
  /\ \A ch \in Chains : run[ch] = 1 => Reached(ch, startBlock[ch])
  /\ \A tx \in Tx : run[ChainOf[tx]] = 1 /\ (Taken(tx) \/ Queued(tx)) =>
       Reached(ChainOf[tx], BlockOf[tx])

(* A transaction that was never put back waits behind those of its chain   *)
(* that are no later: taken before it, or ahead of it on the channel.      *)
After(n) ==
  /\ startBlock[ChainOf[newTxn[n]]] <= BlockOf[newTxn[n]]
  /\ \A t \in Tx : ChainOf[t] = ChainOf[newTxn[n]] /\ Taken(t) =>
       BlockOf[t] <= BlockOf[newTxn[n]]
  /\ \A m \in 1 .. Len(newTxn) : m < n /\ ChainOf[newTxn[m]] = ChainOf[newTxn[n]] =>
       BlockOf[newTxn[m]] <= BlockOf[newTxn[n]]

QueueInOrder == \A n \in 1 .. Len(newTxn) : FirstTry(newTxn[n]) => After(n)

(* So does the start block wait for one that is being worked on.           *)
HeldInOrder ==
  \A c \in Consumers : Busy(c) /\ ChainOf[txn[c]] = c[1] /\ FirstTry(txn[c]) =>
    startBlock[c[1]] <= BlockOf[txn[c]]

RetryInv == HandBlock /\ ConsumerMarks /\ ScanReached /\ QueueInOrder /\ HeldInOrder

-----------------------------------------------------------------------------
(* A first run stays what it was: run only grows.                          *)
LEMMA StillFirst ==
  ASSUME TypeInv, [Next]_vars, NEW ch \in Chains, run'[ch] = 1
  PROVE  run[ch] = 1 /\ ~Restart(ch) /\ ~Crash
<1>t. run \in [Chains -> 1 .. MaxRuns]
  BY DEF TypeInv, TypeOK
<1>1. run[ch] \in Nat /\ run[ch] # 0
  BY <1>t, PollingAssumptions
<1>2. ASSUME run'[ch] = run[ch] + 1 PROVE FALSE
  BY <1>1, <1>2
<1>3. ~Restart(ch)
  <2>1. Restart(ch) => run' = [run EXCEPT ![ch] = run[ch] + 1]
    BY Zenon DEF Restart
  <2> QED
    BY Zenon, <1>t, <1>2, <2>1
<1>4. ~Crash
  <2>1. Crash => run' = [x \in Chains |-> run[x] + 1]
    BY Zenon DEF Crash
  <2> QED
    BY Zenon, <1>2, <2>1
<1>5. ASSUME NEW k \in Chains, Restart(k), k # ch PROVE run[ch] = 1
  BY Zenon, <1>t, <1>5 DEF Restart
<1>6. CASE UNCHANGED run
  BY <1>6, <1>3, <1>4
<1> QED
  BY Zenon, <1>3, <1>4, <1>5, <1>6 DEF Next, Producer, Consumer, Settle, NewBlock, Cancel,
     Poll, PollAt, Scan, Send, Return, Panic, Recv, Stop, NoReceipt, Requeue, DropFailed,
     Refuse, Distribute, SetStartBlock, vars

LEMMA Lower ==
  ASSUME TypeInv, NEW ch \in Chains, NEW a \in Nat, NEW b \in Nat, a <= b, Reached(ch, b)
  PROVE  Reached(ch, a)
<1>1. blk[ch] \in Nat /\ currentBlockNum[ch] \in Nat
  BY DEF TypeInv, TypeOK
<1> QED
  BY <1>1 DEF Reached

LEMMA OneMore == ASSUME NEW a \in Nat, NEW b \in Nat, a <= b PROVE a < b + 1
  OBVIOUS

LEMMA LessAtMost == ASSUME NEW a \in Nat, NEW b \in Nat, a < b PROVE a <= b
  OBVIOUS

LEMMA NoneAbove == ASSUME NEW a \in Nat, NEW b \in Nat, a <= 0 PROVE a <= b
  OBVIOUS

(* The scan does not go back within a run.                                 *)
LEMMA ReachedStays ==
  ASSUME TypeInv, [Next]_vars, NEW ch \in Chains, run'[ch] = 1, NEW b \in Nat,
         Reached(ch, b)
  PROVE  Reached(ch, b)'
<1>t. /\ pc \in [Chains -> {"poll", "scan", "send", "done", "recovered"}]
      /\ blk \in [Chains -> Nat] /\ currentBlockNum \in [Chains -> Nat]
  BY DEF TypeInv, TypeOK
<1>n. blk[ch] \in Nat /\ currentBlockNum[ch] \in Nat
  BY <1>t
<1>1. CASE pc'[ch] = pc[ch] /\ blk'[ch] = blk[ch] /\ currentBlockNum'[ch] = currentBlockNum[ch]
  BY Zenon, <1>1 DEF Reached
<1>2. ASSUME NEW k \in Chains, k # ch,
             Poll(k) \/ Scan(k) \/ Send(k) \/ Return(k) \/ Panic(k) \/ Restart(k)
      PROVE  pc'[ch] = pc[ch] /\ blk'[ch] = blk[ch] /\ currentBlockNum'[ch] = currentBlockNum[ch]
  BY ZenonT(30), <1>t, <1>2 DEF Poll, PollAt, Scan, Send, NextBlock, Return, Panic, Restart
<1>3. CASE Poll(ch)
  <2>1. PICK cur \in Nat :
          /\ b <= cur
          /\ \/ pc'[ch] = "scan" /\ blk'[ch] = cur + 1
             \/ pc'[ch] = "poll" /\ currentBlockNum'[ch] = cur
    <3>1. ResumePoint(ch) \in Nat /\ pc[ch] = "poll" /\ b <= currentBlockNum[ch]
      <4>1. ResumePoint(ch) \in Nat
        BY PollingAssumptions DEF ResumePoint, TypeInv, TypeOK
      <4> QED
        BY Zenon, <1>3, <4>1 DEF Poll, PollAt, Reached
    <3>2. CASE currentBlockNum[ch] = 0
      <4>1. \/ pc'[ch] = "scan" /\ blk'[ch] = ResumePoint(ch) + 1
            \/ pc'[ch] = "poll" /\ currentBlockNum'[ch] = ResumePoint(ch)
        BY ZenonT(30), <1>t, <1>3, <3>1, <3>2 DEF Poll, PollAt
      <4>2. b <= ResumePoint(ch)
        BY Zenon, <3>1, <3>2, NoneAbove
      <4> QED
        BY Zenon, <3>1, <4>1, <4>2
    <3>3. CASE currentBlockNum[ch] # 0
      <4>1. \/ pc'[ch] = "scan" /\ blk'[ch] = currentBlockNum[ch] + 1
            \/ pc'[ch] = "poll" /\ currentBlockNum'[ch] = currentBlockNum[ch]
        BY ZenonT(30), <1>t, <1>3, <3>1, <3>3 DEF Poll, PollAt
      <4> QED
        BY Zenon, <1>n, <3>1, <4>1
    <3> QED
      BY <3>2, <3>3
  <2>2. b < cur + 1
    BY Zenon, <2>1, OneMore
  <2> QED
    BY <2>1, <2>2 DEF Reached
<1>4. ASSUME NextBlock(ch), b <= blk[ch] PROVE Reached(ch, b)'
  <2>1. b < blk[ch] + 1
    BY Zenon, <1>n, <1>4, OneMore
  <2> QED
    BY <1>4, <2>1, NextBlockLeaves DEF Reached
<1>5. CASE Scan(ch)
  <2>1. b <= blk[ch]
    BY Zenon, <1>n, <1>5, LessAtMost DEF Scan, Reached
  <2>2. CASE NextBlock(ch)
    BY Zenon, <1>4, <2>1, <2>2
  <2>3. CASE pc' = [pc EXCEPT ![ch] = "send"] /\ UNCHANGED blk
    <3>1. pc'[ch] = "send" /\ blk'[ch] = blk[ch]
      BY Zenon, <1>t, <2>3
    <3> QED
      BY <2>1, <3>1 DEF Reached
  <2> QED
    BY Zenon, <1>5, <2>2, <2>3 DEF Scan
<1>6. CASE Send(ch)
  <2>1. b <= blk[ch]
    BY Zenon, <1>6 DEF Send, Reached
  <2> QED
    BY Zenon, <1>1, <1>4, <1>6, <2>1 DEF Send
<1>7. CASE Return(ch) \/ Panic(ch)
  <2>1. pc'[ch] = "done" \/ pc'[ch] = "recovered"
    BY Zenon, <1>t, <1>7 DEF Return, Panic
  <2> QED
    BY <2>1 DEF Reached
<1>8. CASE UNCHANGED producerVars
  BY Zenon, <1>1, <1>8 DEF producerVars
<1>9. ASSUME NEW c \in Consumers, Consumer(c) PROVE UNCHANGED producerVars
  BY Zenon, <1>9 DEF Consumer, Settle, Recv, Stop, NoReceipt, Requeue, DropFailed, Refuse,
     Distribute, SetStartBlock
<1>10. ASSUME NEW k \in Chains, NewBlock(k) \/ Cancel(k) PROVE UNCHANGED producerVars
  BY Zenon, <1>10 DEF NewBlock, Cancel
<1>11. CASE UNCHANGED vars
  BY Zenon, <1>8, <1>11 DEF vars
<1>12. ~Restart(ch) /\ ~Crash
  BY Zenon, StillFirst
<1> QED
  BY Zenon, <1>1, <1>2, <1>3, <1>5, <1>6, <1>7, <1>8, <1>9, <1>10, <1>11, <1>12
     DEF Next, Producer

-----------------------------------------------------------------------------
(* What is on the channel after an append was there, or was appended.      *)
LEMMA AppendFrom ==
  ASSUME TypeInv, NEW tx \in Tx, NEW e \in Tx, newTxn' = Append(newTxn, e), Queued(tx)'
  PROVE  Queued(tx) \/ tx = e
<1>1. newTxn \in Seq(Tx)
  BY DEF TypeInv, TypeOK
<1>2. /\ Len(newTxn') = Len(newTxn) + 1
      /\ \A n \in 1 .. Len(newTxn) : newTxn'[n] = newTxn[n]
      /\ newTxn'[Len(newTxn) + 1] = e
  BY <1>1, AppendQueue
<1>3. PICK n \in 1 .. Len(newTxn') : newTxn'[n] = tx
  BY Zenon DEF Queued
<1>4. n \in 1 .. Len(newTxn) \/ n = Len(newTxn) + 1
  <2>1. Len(newTxn) \in Nat
    BY <1>1
  <2> QED
    BY <1>2, <1>3, <2>1
<1> QED
  BY Zenon, <1>2, <1>3, <1>4 DEF Queued

(* What is on the channel after a receive was there.                       *)
LEMMA TailFrom ==
  ASSUME TypeInv, NEW tx \in Tx, newTxn # <<>>, newTxn' = Tail(newTxn), Queued(tx)'
  PROVE  Queued(tx)
<1>1. newTxn \in Seq(Tx)
  BY DEF TypeInv, TypeOK
<1>2. PICK n \in 1 .. Len(newTxn') : newTxn'[n] = tx
  BY Zenon DEF Queued
<1>3. /\ Len(newTxn') = Len(newTxn) - 1
      /\ Len(newTxn) \in Nat /\ n \in Nat
      /\ n + 1 \in 1 .. Len(newTxn)
      /\ newTxn'[n] = newTxn[n + 1]
  BY <1>1, <1>2, TailQueue
<1> QED
  BY Zenon, <1>2, <1>3 DEF Queued

(* What is received was on the channel.                                    *)
LEMMA HeadQueued ==
  ASSUME TypeInv, newTxn # <<>>
  PROVE  Head(newTxn) \in Tx /\ Queued(Head(newTxn))
<1>1. newTxn \in Seq(Tx) /\ Len(newTxn) \in Nat /\ Len(newTxn) # 0
  BY TailQueue DEF TypeInv, TypeOK
<1>2. 1 \in 1 .. Len(newTxn)
  BY <1>1
<1> QED
  BY <1>1, <1>2, TailQueue DEF Queued

(* What somebody has taken off the channel was on it.                      *)
LEMMA TakenFrom ==
  ASSUME TypeInv, [Next]_vars, NEW tx \in Tx, Taken(tx)'
  PROVE  \/ Taken(tx)
         \/ tx = Head(newTxn) /\ \E c \in Consumers : Recv(c)
<1>t. txn \in [Consumers -> Tx \cup {NoTx}] /\ NoTx \notin Tx
  BY PollingAssumptions DEF TypeInv, TypeOK
<1>1. ASSUME NEW c \in Consumers, Recv(c)
      PROVE  Taken(tx) \/ tx = Head(newTxn)
  <2>1. requeued' = requeued
    BY Zenon, <1>1 DEF Recv, historyVars
  <2>2. \A d \in Consumers : txn'[d] = txn[d] \/ txn'[d] = Head(newTxn)
    BY Zenon, <1>t, <1>1 DEF Recv
  <2> QED
    BY Zenon, <2>1, <2>2 DEF Taken
<1>2. ASSUME NEW c \in Consumers, NoReceipt(c) PROVE Taken(tx)
  BY Zenon, <1>2 DEF NoReceipt, Taken
<1>3. ASSUME NEW c \in Consumers, requeued' = requeued, txn' = [txn EXCEPT ![c] = NoTx]
      PROVE  Taken(tx)
  <2>1. \A d \in Consumers : txn'[d] = txn[d] \/ txn'[d] = NoTx
    BY Zenon, <1>t, <1>3
  <2> QED
    BY Zenon, <1>t, <1>3, <2>1 DEF Taken
<1>4. ASSUME NEW c \in Consumers, Requeue(c) \/ DropFailed(c) \/ Refuse(c) \/ SetStartBlock(c)
      PROVE  requeued' = requeued /\ txn' = [txn EXCEPT ![c] = NoTx]
  BY Zenon, <1>4 DEF Requeue, DropFailed, Refuse, SetStartBlock, Idle, historyVars
<1>5. CASE Crash
  <2>1. requeued' = requeued /\ \A d \in Consumers : txn'[d] = NoTx
    BY Zenon, <1>5 DEF Crash, historyVars
  <2> QED
    BY Zenon, <1>t, <2>1 DEF Taken
<1>6. CASE UNCHANGED <<requeued, txn>>
  BY Zenon, <1>6 DEF Taken
<1> QED
  BY ZenonT(30), <1>1, <1>2, <1>3, <1>4, <1>5, <1>6 DEF Next, Producer, Consumer, Settle, NewBlock,
     Cancel, Poll, PollAt, Scan, Send, Return, Panic, Restart, Stop, Distribute, vars,
     consumerVars, historyVars

(* Requeueing and checkpointing follow the checks before them.             *)
LEMMA NextConsumerMarks == TypeInv /\ ConsumerMarks /\ [Next]_vars => ConsumerMarks'
<1> SUFFICES ASSUME TypeInv, ConsumerMarks, [Next]_vars, NEW d \in Consumers
             PROVE  /\ cpc'[d] = "requeue" => txn'[d] \in requeued'
                    /\ cpc'[d] = "checkpoint" => ChainOf[txn'[d]] = d[1]
  BY Zenon DEF ConsumerMarks
<1>t. /\ cpc \in [Consumers -> {"none", "idle", "check", "requeue", "checkpoint"}]
      /\ txn \in [Consumers -> Tx \cup {NoTx}]
  BY DEF TypeInv, TypeOK
<1>0. requeued \subseteq requeued'
  BY Zenon DEF Next, Producer, Consumer, Settle, NewBlock, Cancel, Poll, PollAt, Scan, Send,
     Return, Panic, Restart, Recv, Stop, NoReceipt, Requeue, DropFailed, Refuse, Distribute,
     SetStartBlock, Crash, vars, historyVars
<1>1. CASE cpc'[d] = cpc[d] /\ txn'[d] = txn[d]
  BY Zenon, <1>0, <1>1 DEF ConsumerMarks
<1>2. CASE cpc'[d] \in {"none", "idle", "check"}
  BY <1>2
<1>3. ASSUME NEW c \in Consumers, Consumer(c), c # d
      PROVE  cpc'[d] = cpc[d] /\ txn'[d] = txn[d]
  BY Zenon, <1>t, <1>3 DEF Consumer, Settle, Recv, Stop, NoReceipt, Requeue, DropFailed,
     Refuse, Distribute, SetStartBlock, Idle
<1>4. CASE Recv(d) \/ Stop(d) \/ Requeue(d) \/ DropFailed(d) \/ Refuse(d) \/ SetStartBlock(d)
  <2>1. cpc'[d] \in {"none", "idle", "check"}
    BY Zenon, <1>t, <1>4 DEF Recv, Stop, Requeue, DropFailed, Refuse, SetStartBlock, Idle
  <2> QED
    BY Zenon, <1>2, <2>1
<1>5. CASE NoReceipt(d)
  <2>1. cpc'[d] = "requeue" /\ txn'[d] = txn[d] /\ txn[d] \in requeued'
    BY Zenon, <1>t, <1>5 DEF NoReceipt
  <2> QED
    BY <2>1
<1>6. CASE Distribute(d)
  <2>1. cpc'[d] = "checkpoint" /\ txn'[d] = txn[d] /\ ChainOf[txn[d]] = d[1]
    BY Zenon, <1>t, <1>6 DEF Distribute
  <2> QED
    BY <2>1
<1>7. ASSUME NEW ch \in Chains, Restart(ch)
      PROVE  cpc'[d] \in {"none", "idle", "check"} \/ (cpc'[d] = cpc[d] /\ txn'[d] = txn[d])
  BY Zenon, <1>t, <1>7 DEF Restart
<1>8. CASE Crash
  BY Zenon, <1>2, <1>8 DEF Crash
<1>9. CASE UNCHANGED consumerVars
  BY Zenon, <1>1, <1>9 DEF consumerVars
<1>10. ASSUME NEW ch \in Chains, NewBlock(ch) \/ Cancel(ch) \/ Producer(ch) \/ Panic(ch)
       PROVE  UNCHANGED consumerVars
  BY Zenon, <1>10 DEF NewBlock, Cancel, Producer, Poll, PollAt, Scan, Send, Return, Panic
<1>11. CASE UNCHANGED vars
  BY Zenon, <1>9, <1>11 DEF vars
<1> QED
  BY Zenon, <1>1, <1>2, <1>3, <1>4, <1>5, <1>6, <1>7, <1>8, <1>9, <1>10, <1>11
     DEF Next, Consumer, Settle

(* The scan has passed every start block of a first run, and every block   *)
(* with a transaction that was sent.                                       *)
LEMMA NextScanReached ==
  TypeInv /\ HandBlock /\ ConsumerMarks /\ ScanReached /\ [Next]_vars => ScanReached'
<1> SUFFICES ASSUME TypeInv, HandBlock, ConsumerMarks, ScanReached, [Next]_vars
             PROVE  ScanReached'
  OBVIOUS
<1>1. ASSUME NEW ch \in Chains, run'[ch] = 1 PROVE Reached(ch, startBlock[ch])'
  <2>t. startBlock \in [Chains -> Nat]
    BY DEF TypeInv, TypeOK
  <2>1. run[ch] = 1 /\ Reached(ch, startBlock[ch])
    BY Zenon, <1>1, StillFirst DEF ScanReached
  <2>2. ASSUME NEW c \in Consumers, SetStartBlock(c), c[1] = ch
        PROVE  startBlock'[ch] \in Nat /\ Reached(ch, startBlock'[ch])
    <3>1. /\ txn[c] \in Tx /\ ChainOf[txn[c]] = ch
          /\ startBlock'[ch] = ReceiptBlock[txn[c]]
      BY Zenon, <2>t, <2>2 DEF SetStartBlock, ConsumerMarks, TypeInv, Holding
    <3>2. Reached(ch, BlockOf[txn[c]])
      BY Zenon, <2>1, <3>1 DEF ScanReached, Taken
    <3>3. BlockOf[txn[c]] \in Nat /\ startBlock'[ch] \in Nat
          /\ startBlock'[ch] <= BlockOf[txn[c]]
      <4>1. ReceiptBlock[txn[c]] \in {0, BlockOf[txn[c]]} /\ BlockOf[txn[c]] \in Nat
        BY Zenon, <3>1, PollingAssumptions
      <4> QED
        BY <3>1, <4>1
    <3> QED
      BY Zenon, <3>2, <3>3, Lower
  <2>3. ASSUME NEW c \in Consumers, SetStartBlock(c), c[1] # ch
        PROVE  startBlock'[ch] = startBlock[ch]
    BY Zenon, <2>t, <2>3 DEF SetStartBlock
  <2>4. CASE startBlock'[ch] = startBlock[ch]
    BY Zenon, <1>1, <2>t, <2>1, <2>4, ReachedStays DEF Reached
  <2>5. ASSUME startBlock'[ch] \in Nat, Reached(ch, startBlock'[ch])
        PROVE  Reached(ch, startBlock[ch])'
    <3>1. PICK b \in Nat : b = startBlock'[ch]
      BY <2>5
    <3>2. Reached(ch, b)'
      BY Zenon, <1>1, <2>5, <3>1, ReachedStays
    <3> QED
      BY Zenon, <3>1, <3>2 DEF Reached
  <2>6. CASE ~\E c \in Consumers : SetStartBlock(c)
    <3>1. startBlock' = startBlock
      BY Zenon, <2>6 DEF Next, Producer, Consumer, Settle, NewBlock, Cancel, Poll, PollAt,
         Scan, Send, Return, Panic, Restart, Recv, Stop, NoReceipt, Requeue, DropFailed,
         Refuse, Distribute, Crash, vars
    <3> QED
      BY Zenon, <2>4, <3>1
  <2> QED
    BY Zenon, <2>2, <2>3, <2>4, <2>5, <2>6
<1>2. ASSUME NEW tx \in Tx, run'[ChainOf[tx]] = 1, Taken(tx)' \/ Queued(tx)'
      PROVE  Reached(ChainOf[tx], BlockOf[tx])'
  <2>0. ChainOf[tx] \in Chains /\ BlockOf[tx] \in Nat
    BY PollingAssumptions
  <2>1. run[ChainOf[tx]] = 1 /\ ~Crash
    BY Zenon, <1>2, <2>0, StillFirst
  <2>2. Taken(tx) \/ Queued(tx) \/ Sending(tx)
    <3>1. CASE Taken(tx)'
      BY Zenon, <3>1, TakenFrom, HeadQueued DEF Recv
    <3>2. ASSUME NEW ch \in Chains, Send(ch), Queued(tx)' PROVE Queued(tx) \/ Sending(tx)
      <4>1. PICK e \in txIDs[ch] : newTxn' = Append(newTxn, e)
        BY Zenon, <3>2 DEF Send
      <4>2. e \in Tx /\ Sending(e)
        BY Zenon, <3>2, <4>1 DEF Send, Sending, HandBlock, TypeInv, TypeOK
      <4> QED
        BY Zenon, <3>2, <4>1, <4>2, AppendFrom
    <3>3. ASSUME NEW c \in Consumers, Requeue(c), Queued(tx)' PROVE Queued(tx) \/ Taken(tx)
      <4>1. newTxn' = Append(newTxn, txn[c]) /\ txn[c] \in Tx /\ Taken(txn[c])
        BY Zenon, <3>3 DEF Requeue, Taken, TypeInv, Holding
      <4> QED
        BY Zenon, <3>3, <4>1, AppendFrom
    <3>4. ASSUME NEW c \in Consumers, Recv(c), Queued(tx)' PROVE Queued(tx)
      BY Zenon, <3>4, TailFrom DEF Recv
    <3>5. CASE UNCHANGED newTxn /\ Queued(tx)'
      BY Zenon, <3>5 DEF Queued
    <3> QED
      BY Zenon, <1>2, <2>1, <3>1, <3>2, <3>3, <3>4, <3>5 DEF Next, Producer, Consumer, Settle,
         NewBlock, Cancel, Poll, PollAt, Scan, Return, Panic, Restart, Stop, NoReceipt,
         DropFailed, Refuse, Distribute, SetStartBlock, vars
  <2>3. Reached(ChainOf[tx], BlockOf[tx])
    <3>1. CASE Sending(tx)
      <4>1. pc[ChainOf[tx]] = "send" /\ BlockOf[tx] = blk[ChainOf[tx]]
        BY Zenon, <2>0, <3>1 DEF Sending, HandBlock
      <4> QED
        BY <2>0, <4>1 DEF Reached
    <3> QED
      BY Zenon, <2>1, <2>2, <3>1 DEF ScanReached
  <2> QED
    BY Zenon, <1>2, <2>0, <2>3, ReachedStays
<1> QED
  BY Zenon, <1>1, <1>2 DEF ScanReached

(* A receive shortens the channel.                                         *)
LEMMA RecvShortens ==
  ASSUME TypeInv, NEW c \in Consumers, Recv(c)
  PROVE  Len(newTxn) \in Nat /\ Len(newTxn') = Len(newTxn) - 1
<1>1. newTxn \in Seq(Tx) /\ newTxn # <<>> /\ newTxn' = Tail(newTxn)
  BY DEF Recv, TypeInv, TypeOK
<1> QED
  BY <1>1, TailQueue

(* Nothing overtakes a transaction that was never put back.                *)
LEMMA NextQueueInOrder ==
  TypeInv /\ RetryInv /\ [Next]_vars => QueueInOrder'
<1> SUFFICES ASSUME TypeInv, RetryInv, [Next]_vars,
                    NEW n \in 1 .. Len(newTxn'), FirstTry(newTxn[n])'
             PROVE  After(n)'
  BY Zenon DEF QueueInOrder
<1>t. /\ newTxn \in Seq(Tx) /\ newTxn' \in Seq(Tx) /\ Len(newTxn) \in Nat
      /\ startBlock \in [Chains -> Nat] /\ n \in Nat
  <2>1. /\ newTxn \in Seq(Tx) /\ newTxn' \in Seq(Tx)
        /\ startBlock \in [Chains -> Nat]
    BY Zenon, NextTypeInv DEF TypeInv, TypeOK
  <2>2. Len(newTxn) \in Nat /\ Len(newTxn') \in Nat
    BY <2>1
  <2> QED
    BY <2>1, <2>2
<1>x. newTxn'[n] \in Tx
  BY <1>t
<1> DEFINE x == newTxn'[n]
           ch == ChainOf[x]
<1>c. ch \in Chains /\ BlockOf[x] \in Nat
  BY Zenon, <1>x, PollingAssumptions
<1>f. run[ch] = 1 /\ ~Crash /\ ~Restart(ch) /\ x \notin requeued'
  BY Zenon, <1>c, StillFirst DEF FirstTry
<1>r. requeued \subseteq requeued'
  BY Zenon DEF Next, Producer, Consumer, Settle, NewBlock, Cancel, Poll, PollAt, Scan, Send,
     Return, Panic, Restart, Recv, Stop, NoReceipt, Requeue, DropFailed, Refuse, Distribute,
     SetStartBlock, Crash, vars, historyVars
<1>g. ASSUME NEW i \in 1 .. Len(newTxn), newTxn[i] = x PROVE After(i)
  BY Zenon, <1>f, <1>r, <1>g DEF RetryInv, QueueInOrder, FirstTry
<1>a. ASSUME startBlock'[ch] <= BlockOf[x],
             \A t \in Tx : ChainOf[t] = ch /\ Taken(t)' => BlockOf[t] <= BlockOf[x],
             \A m \in 1 .. Len(newTxn') : m < n /\ ChainOf[newTxn'[m]] = ch =>
               BlockOf[newTxn'[m]] <= BlockOf[x]
      PROVE  After(n)'
  BY Zenon, <1>a DEF After
<1>1. ASSUME NEW c \in Consumers, Recv(c) PROVE After(n)'
  <2>1. /\ newTxn # <<>> /\ newTxn' = Tail(newTxn) /\ startBlock' = startBlock
    BY Zenon, <1>1 DEF Recv
  <2>2. /\ Head(newTxn) = newTxn[1] /\ Len(newTxn') = Len(newTxn) - 1 /\ Len(newTxn) # 0
        /\ \A m \in 1 .. Len(newTxn) - 1 : newTxn'[m] = newTxn[m + 1]
    BY <1>t, <2>1, TailQueue
  <2>3. /\ n + 1 \in 1 .. Len(newTxn) /\ 1 \in 1 .. Len(newTxn) /\ 1 < n + 1
        /\ n \in 1 .. Len(newTxn) - 1
        /\ \A m \in 1 .. Len(newTxn') : /\ m \in 1 .. Len(newTxn) - 1
                                        /\ m + 1 \in 1 .. Len(newTxn)
                                        /\ m < n => m + 1 < n + 1
    <3>1. /\ Len(newTxn) \in Nat /\ n \in 1 .. Len(newTxn')
          /\ Len(newTxn') = Len(newTxn) - 1
      BY Zenon, <1>t, <2>2
    <3> QED
      BY <3>1
  <2>4. newTxn[n + 1] = x
    BY Zenon, <2>2, <2>3
  <2>5. After(n + 1)
    BY Zenon, <1>g, <2>3, <2>4
  <2>6. startBlock'[ch] <= BlockOf[x]
    BY Zenon, <2>1, <2>4, <2>5 DEF After
  <2>7. ASSUME NEW t \in Tx, ChainOf[t] = ch, Taken(t)' PROVE BlockOf[t] <= BlockOf[x]
    <3>1. Taken(t) \/ t = newTxn[1]
      BY Zenon, <2>2, <2>7, TakenFrom
    <3> QED
      BY Zenon, <2>3, <2>4, <2>5, <2>7, <3>1 DEF After
  <2>8. ASSUME NEW m \in 1 .. Len(newTxn'), m < n, ChainOf[newTxn'[m]] = ch
        PROVE  BlockOf[newTxn'[m]] <= BlockOf[x]
    BY Zenon, <2>2, <2>3, <2>4, <2>5, <2>8 DEF After
  <2> QED
    BY Zenon, <1>a, <2>6, <2>7, <2>8
<1>2. ASSUME ~\E c \in Consumers : Recv(c)
      PROVE  \A t \in Tx : Taken(t)' => Taken(t)
  BY Zenon, <1>2, TakenFrom
<1>3. ASSUME NEW e \in Tx, newTxn' = Append(newTxn, e), startBlock' = startBlock,
             ~\E c \in Consumers : Recv(c)
      PROVE  \/ n \in 1 .. Len(newTxn) /\ After(n)'
             \/ n = Len(newTxn) + 1 /\ x = e
  <2>1. /\ Len(newTxn') = Len(newTxn) + 1
        /\ \A m \in 1 .. Len(newTxn) : newTxn'[m] = newTxn[m]
        /\ newTxn'[Len(newTxn) + 1] = e
    <3>1. newTxn \in Seq(Tx) /\ e \in Tx /\ newTxn' = Append(newTxn, e)
      BY Zenon, <1>t, <1>3
    <3> QED
      BY <3>1, AppendQueue
  <2>2. CASE n \in 1 .. Len(newTxn)
    <3>1. newTxn[n] = x /\ After(n)
      BY Zenon, <1>g, <2>1, <2>2
    <3>2. \A m \in 1 .. Len(newTxn') : m < n => m \in 1 .. Len(newTxn)
      BY <1>t, <2>2
    <3>3. /\ startBlock'[ch] <= BlockOf[x]
          /\ \A t \in Tx : ChainOf[t] = ch /\ Taken(t)' => BlockOf[t] <= BlockOf[x]
      BY Zenon, <1>2, <1>3, <3>1 DEF After
    <3>4. ASSUME NEW m \in 1 .. Len(newTxn'), m < n, ChainOf[newTxn'[m]] = ch
          PROVE  BlockOf[newTxn'[m]] <= BlockOf[x]
      BY Zenon, <2>1, <3>1, <3>2, <3>4 DEF After
    <3> QED
      BY Zenon, <1>a, <2>2, <3>3, <3>4
  <2>3. CASE n \notin 1 .. Len(newTxn)
    <3>1. n = Len(newTxn) + 1
      BY <1>t, <2>1, <2>3
    <3> QED
      BY Zenon, <2>1, <3>1
  <2> QED
    BY <2>2, <2>3
<1>4. ASSUME NEW c \in Consumers, Requeue(c) PROVE After(n)'
  <2>1. /\ newTxn' = Append(newTxn, txn[c]) /\ startBlock' = startBlock
        /\ txn[c] \in Tx /\ txn[c] \in requeued
    BY Zenon, <1>4 DEF Requeue, RetryInv, ConsumerMarks, TypeInv, Holding
  <2>2. x # txn[c] /\ ~\E d \in Consumers : Recv(d)
    <3>1. ASSUME NEW d \in Consumers, Recv(d) PROVE FALSE
      <4>1. Len(newTxn') = Len(newTxn) + 1
        BY <1>t, <2>1, AppendQueue
      <4>2. Len(newTxn') = Len(newTxn) - 1
        BY Zenon, <3>1, RecvShortens
      <4> QED
        BY <1>t, <4>1, <4>2
    <3> QED
      BY Zenon, <1>f, <1>r, <2>1, <3>1
  <2> QED
    BY Zenon, <1>3, <2>1, <2>2
<1>5. ASSUME NEW k \in Chains, Send(k) PROVE After(n)'
  <2>1. PICK e \in txIDs[k] : newTxn' = Append(newTxn, e)
    BY Zenon, <1>5 DEF Send
  <2>2. /\ e \in Tx /\ ChainOf[e] = k /\ BlockOf[e] = blk[k] /\ pc[k] = "send"
        /\ startBlock' = startBlock
    BY Zenon, <1>5 DEF Send, RetryInv, HandBlock, TypeInv, TypeOK
  <2>3. ~\E d \in Consumers : Recv(d)
    <3>1. ASSUME NEW d \in Consumers, Recv(d) PROVE FALSE
      <4>1. Len(newTxn') = Len(newTxn) + 1
        BY <1>t, <2>1, <2>2, AppendQueue
      <4>2. Len(newTxn') = Len(newTxn) - 1
        BY Zenon, <3>1, RecvShortens
      <4> QED
        BY <1>t, <4>1, <4>2
    <3> QED
      BY Zenon, <3>1
  <2>4. CASE n = Len(newTxn) + 1 /\ x = e
    <3>1. ch = k
      BY Zenon, <2>2, <2>4
    <3>2. startBlock'[ch] <= BlockOf[x]
      BY Zenon, <1>f, <2>2, <2>4, <3>1 DEF RetryInv, ScanReached, Reached
    <3>3. ASSUME NEW t \in Tx, ChainOf[t] = ch, Taken(t) \/ Queued(t)
          PROVE  BlockOf[t] <= BlockOf[x]
      BY Zenon, <1>f, <2>2, <2>4, <3>1, <3>3 DEF RetryInv, ScanReached, Reached
    <3>4. ASSUME NEW m \in 1 .. Len(newTxn'), m < n
          PROVE  newTxn'[m] \in Tx /\ Queued(newTxn'[m])
      <4>1. m \in 1 .. Len(newTxn) /\ newTxn'[m] = newTxn[m] /\ newTxn[m] \in Tx
        BY <1>t, <2>1, <2>2, <2>4, <3>4, AppendQueue
      <4> QED
        BY Zenon, <4>1 DEF Queued
    <3> QED
      BY Zenon, <1>2, <1>a, <2>3, <3>2, <3>3, <3>4
  <2> QED
    BY Zenon, <1>3, <2>1, <2>2, <2>3, <2>4
<1>6. ASSUME newTxn' = newTxn, startBlock'[ch] <= BlockOf[x],
             ~\E c \in Consumers : Recv(c)
      PROVE  After(n)'
  <2>1. n \in 1 .. Len(newTxn) /\ newTxn[n] = x /\ After(n)
    BY Zenon, <1>g, <1>6
  <2> QED
    BY Zenon, <1>2, <1>a, <1>6, <2>1 DEF After
<1>7. ASSUME newTxn' = newTxn PROVE ~\E c \in Consumers : Recv(c)
  <2>1. ASSUME NEW d \in Consumers, Recv(d) PROVE FALSE
    <3>1. Len(newTxn') = Len(newTxn) - 1
      BY Zenon, <2>1, RecvShortens
    <3> QED
      BY <1>t, <1>7, <3>1
  <2> QED
    BY Zenon, <2>1
<1>8. ASSUME newTxn' = newTxn PROVE After(n)
  BY Zenon, <1>g, <1>8
<1>9. ASSUME NEW c \in Consumers, SetStartBlock(c) PROVE After(n)'
  <2>1. newTxn' = newTxn /\ txn[c] \in Tx /\ ChainOf[txn[c]] = c[1] /\ c[1] \in Chains
        /\ startBlock' = [startBlock EXCEPT ![c[1]] = ReceiptBlock[txn[c]]]
    <3>1. c[1] \in Chains
      BY DEF Consumers
    <3> QED
      BY Zenon, <1>9, <3>1 DEF SetStartBlock, RetryInv, ConsumerMarks, TypeInv, Holding
  <2>2. CASE c[1] = ch
    <3>1. BlockOf[txn[c]] <= BlockOf[x]
      BY Zenon, <1>8, <2>1, <2>2 DEF After, Taken
    <3>2. startBlock'[ch] = ReceiptBlock[txn[c]]
      BY Zenon, <1>t, <2>1, <2>2
    <3>3. ReceiptBlock[txn[c]] \in {0, BlockOf[txn[c]]} /\ BlockOf[txn[c]] \in Nat
      BY Zenon, <2>1, PollingAssumptions
    <3>4. startBlock'[ch] <= BlockOf[x]
      BY <1>c, <3>1, <3>2, <3>3
    <3> QED
      BY Zenon, <1>6, <1>7, <2>1, <3>4
  <2>3. CASE c[1] # ch
    <3>1. startBlock'[ch] = startBlock[ch]
      BY Zenon, <1>t, <1>c, <2>1, <2>3
    <3> QED
      BY Zenon, <1>6, <1>7, <1>8, <2>1, <3>1 DEF After
  <2> QED
    BY <2>2, <2>3
<1>10. CASE UNCHANGED <<newTxn, startBlock>>
  BY Zenon, <1>6, <1>7, <1>8, <1>10 DEF After
<1> QED
  BY Zenon, <1>1, <1>4, <1>5, <1>9, <1>10, <1>f DEF Next, Producer, Consumer, Settle,
     NewBlock, Cancel, Poll, PollAt, Scan, Return, Panic, Restart, Stop, NoReceipt,
     DropFailed, Refuse, Distribute, vars

(* The first run of a chain has one consumer.                              *)
LEMMA OneConsumer ==
  ASSUME TypeInv, NEW c \in Consumers, NEW d \in Consumers, c[1] = d[1],
         run[c[1]] = 1, cpc[c] # "none", cpc[d] # "none"
  PROVE  c = d
<1>1. /\ c = <<c[1], c[2]>> /\ d = <<d[1], d[2]>>
      /\ c[2] \in 1 .. MaxRuns /\ d[2] \in 1 .. MaxRuns
  BY DEF Consumers
<1>2. ~(c[2] > 1) /\ ~(d[2] > 1)
  BY Zenon DEF TypeInv, FreshRuns
<1>3. c[2] = 1 /\ d[2] = 1
  BY <1>1, <1>2, PollingAssumptions
<1> QED
  BY Zenon, <1>1, <1>3

(* Who stores a start block in a first run has no other consumer beside it. *)
LEMMA StoredByOwn ==
  ASSUME TypeInv, [Next]_vars, NEW d \in Consumers, cpc[d] # "none", run[d[1]] = 1,
         ~SetStartBlock(d)
  PROVE  startBlock'[d[1]] = startBlock[d[1]]
<1>1. d[1] \in Chains /\ startBlock \in [Chains -> Nat]
  BY DEF Consumers, TypeInv, TypeOK
<1>2. ASSUME NEW c \in Consumers, SetStartBlock(c) PROVE startBlock'[d[1]] = startBlock[d[1]]
  <2>1. c[1] # d[1]
    <3>1. cpc[c] # "none"
      BY <1>2 DEF SetStartBlock
    <3> QED
      BY Zenon, <1>2, <3>1, OneConsumer
  <2> QED
    BY Zenon, <1>1, <1>2, <2>1 DEF SetStartBlock
<1>3. CASE startBlock' = startBlock
  BY <1>3
<1> QED
  BY Zenon, <1>2, <1>3 DEF Next, Producer, Consumer, Settle, NewBlock, Cancel, Poll, PollAt,
     Scan, Send, Return, Panic, Restart, Recv, Stop, NoReceipt, Requeue, DropFailed,
     Refuse, Distribute, Crash, vars

(* The start block waits for the transaction that is being worked on.      *)
LEMMA NextHeldInOrder == TypeInv /\ RetryInv /\ [Next]_vars => HeldInOrder'
<1> SUFFICES ASSUME TypeInv, RetryInv, [Next]_vars, NEW d \in Consumers,
                    Busy(d)', ChainOf[txn'[d]] = d[1], FirstTry(txn[d])'
             PROVE  startBlock'[d[1]] <= BlockOf[txn'[d]]
  BY Zenon DEF HeldInOrder
<1>t. /\ cpc \in [Consumers -> {"none", "idle", "check", "requeue", "checkpoint"}]
      /\ txn \in [Consumers -> Tx \cup {NoTx}] /\ d[1] \in Chains
  BY Zenon DEF TypeInv, TypeOK, Consumers
<1>f. run[d[1]] = 1 /\ ~Crash /\ txn'[d] \notin requeued'
  BY Zenon, <1>t, StillFirst DEF FirstTry
<1>r. requeued \subseteq requeued'
  BY Zenon DEF Next, Producer, Consumer, Settle, NewBlock, Cancel, Poll, PollAt, Scan, Send,
     Return, Panic, Restart, Recv, Stop, NoReceipt, Requeue, DropFailed, Refuse, Distribute,
     SetStartBlock, Crash, vars, historyVars
<1>b. cpc'[d] \notin {"none", "idle"}
  BY DEF Busy
<1>1. ASSUME Busy(d), txn'[d] = txn[d], ~SetStartBlock(d)
      PROVE  startBlock'[d[1]] <= BlockOf[txn'[d]]
  <2>1. startBlock[d[1]] <= BlockOf[txn[d]]
    BY Zenon, <1>f, <1>r, <1>1 DEF RetryInv, HeldInOrder, FirstTry
  <2>2. cpc[d] # "none"
    BY <1>1 DEF Busy
  <2>3. startBlock'[d[1]] = startBlock[d[1]]
    BY Zenon, <1>f, <1>1, <2>2, StoredByOwn
  <2> QED
    BY Zenon, <1>1, <2>1, <2>3
<1>2. CASE Recv(d)
  <2>1. newTxn # <<>> /\ txn'[d] = Head(newTxn) /\ startBlock' = startBlock
    BY Zenon, <1>t, <1>2 DEF Recv
  <2>2. newTxn \in Seq(Tx) /\ Head(newTxn) = newTxn[1] /\ 1 \in 1 .. Len(newTxn)
    <3>1. newTxn \in Seq(Tx)
      BY Zenon DEF TypeInv, TypeOK
    <3>2. Head(newTxn) = newTxn[1] /\ Len(newTxn) \in Nat /\ Len(newTxn) # 0
      BY Zenon, <2>1, <3>1, TailQueue
    <3> QED
      BY <3>1, <3>2
  <2>3. FirstTry(newTxn[1])
    BY Zenon, <1>f, <1>r, <2>1, <2>2 DEF FirstTry
  <2>4. After(1)
    BY Zenon, <2>2, <2>3 DEF RetryInv, QueueInOrder
  <2> QED
    BY Zenon, <2>1, <2>2, <2>4 DEF After
<1>3. CASE NoReceipt(d)
  BY Zenon, <1>f, <1>3 DEF NoReceipt
<1>4. CASE Distribute(d)
  <2>1. Busy(d) /\ txn' = txn /\ cpc[d] # "checkpoint"
    BY <1>4 DEF Distribute, Busy
  <2> QED
    BY Zenon, <1>1, <2>1 DEF SetStartBlock
<1>5. CASE Stop(d) \/ Requeue(d) \/ DropFailed(d) \/ Refuse(d) \/ SetStartBlock(d)
  <2>1. cpc'[d] \in {"none", "idle"}
    BY Zenon, <1>t, <1>5 DEF Stop, Requeue, DropFailed, Refuse, SetStartBlock, Idle
  <2> QED
    BY Zenon, <1>b, <2>1
<1>6. CASE cpc'[d] = cpc[d] /\ txn'[d] = txn[d]
  <2>1. Busy(d) /\ ~SetStartBlock(d)
    <3>1. Busy(d)
      BY Zenon, <1>6 DEF Busy
    <3>2. SetStartBlock(d) => cpc'[d] = "idle"
      BY Zenon, <1>t DEF SetStartBlock, Idle
    <3> QED
      BY Zenon, <1>b, <3>1, <3>2
  <2> QED
    BY Zenon, <1>1, <1>6, <2>1
<1>7. ASSUME NEW c \in Consumers, Consumer(c), c # d
      PROVE  cpc'[d] = cpc[d] /\ txn'[d] = txn[d]
  BY Zenon, <1>t, <1>7 DEF Consumer, Settle, Recv, Stop, NoReceipt, Requeue, DropFailed,
     Refuse, Distribute, SetStartBlock, Idle
<1>8. ASSUME NEW ch \in Chains, Restart(ch)
      PROVE  cpc'[d] \in {"none", "idle"} \/ (cpc'[d] = cpc[d] /\ txn'[d] = txn[d])
  BY Zenon, <1>t, <1>8 DEF Restart
<1>9. ASSUME NEW ch \in Chains, NewBlock(ch) \/ Cancel(ch) \/ Producer(ch) \/ Panic(ch)
      PROVE  cpc' = cpc /\ txn' = txn
  BY Zenon, <1>9 DEF NewBlock, Cancel, Producer, Poll, PollAt, Scan, Send, Return, Panic,
     consumerVars
<1>10. CASE UNCHANGED vars
  BY Zenon, <1>6, <1>10 DEF vars, consumerVars
<1> QED
  BY Zenon, <1>b, <1>f, <1>2, <1>3, <1>4, <1>5, <1>6, <1>7, <1>8, <1>9, <1>10
     DEF Next, Consumer, Settle

LEMMA InitRetryInv == Init => RetryInv
<1> SUFFICES ASSUME Init PROVE RetryInv
  OBVIOUS
<1>1. HandBlock
  BY DEF Init, HandBlock
<1>2. ConsumerMarks /\ HeldInOrder
  BY DEF Init, ConsumerMarks, HeldInOrder, Busy
<1>3. QueueInOrder
  BY DEF Init, QueueInOrder
<1>4. ScanReached
  <2>1. \A tx \in Tx : ~Taken(tx) /\ ~Queued(tx)
    BY PollingAssumptions DEF Init, Taken, Queued
  <2>2. \A ch \in Chains : Reached(ch, startBlock[ch])
    BY DEF Init, Reached
  <2> QED
    BY Zenon, <2>1, <2>2 DEF ScanReached
<1> QED
  BY Zenon, <1>1, <1>2, <1>3, <1>4 DEF RetryInv

LEMMA NextRetryInv == TypeInv /\ RetryInv /\ [Next]_vars => RetryInv'
  BY Zenon, NextHandBlock, NextConsumerMarks, NextScanReached, NextQueueInOrder,
     NextHeldInOrder DEF RetryInv

(* In the first run of a chain SetStartBlock moves the start block back    *)
(* only for a transaction that was put back for lack of a receipt, or      *)
(* whose BlockNumber does not parse: the channel keeps the order of the    *)
(* scan, whatever the consumers of other chains take off it and put back.  *)
THEOREM StartBlockFollowsScan == Spec => OnlyRetriesMoveBack
<1>1. Init => TypeInv /\ RetryInv
  BY InitTypeInv, InitRetryInv
<1>2. TypeInv /\ RetryInv /\ [Next]_vars => (TypeInv /\ RetryInv)'
  BY NextTypeInv, NextRetryInv
<1> DEFINE MovesBack(c) == /\ cpc[c] = "checkpoint" /\ cpc'[c] = "idle"
                           /\ run[c[1]] = 1
                           /\ startBlock'[c[1]] < startBlock[c[1]]
<1>3. ASSUME TypeInv, RetryInv, [Next]_vars, NEW c \in Consumers, MovesBack(c)
      PROVE  txn[c] \in requeued \/ ReceiptBlock[txn[c]] = 0
  <2>1. startBlock \in [Chains -> Nat] /\ c[1] \in Chains
    BY <1>3 DEF TypeInv, TypeOK, Consumers
  <2>2. SetStartBlock(c)
    <3>1. startBlock'[c[1]] # startBlock[c[1]]
      BY <1>3, <2>1
    <3>2. cpc[c] # "none"
      BY <1>3
    <3> QED
      BY Zenon, <1>3, <3>1, <3>2, StoredByOwn
  <2>3. /\ txn[c] \in Tx /\ ChainOf[txn[c]] = c[1]
        /\ startBlock'[c[1]] = ReceiptBlock[txn[c]]
    BY Zenon, <1>3, <2>1, <2>2 DEF SetStartBlock, RetryInv, ConsumerMarks, TypeInv, Holding
  <2>4. ReceiptBlock[txn[c]] \in {0, BlockOf[txn[c]]} /\ BlockOf[txn[c]] \in Nat
    BY Zenon, <2>3, PollingAssumptions
  <2>5. CASE txn[c] \notin requeued
    <3>1. Busy(c)
      BY <1>3 DEF Busy
    <3>2. startBlock[c[1]] <= BlockOf[txn[c]]
      BY Zenon, <1>3, <2>3, <2>5, <3>1 DEF RetryInv, HeldInOrder, FirstTry
    <3> QED
      BY <1>3, <2>1, <2>3, <2>4, <3>2
  <2> QED
    BY <2>5
<1>4. TypeInv /\ RetryInv /\ [Next]_vars =>
        [\A c \in Consumers : MovesBack(c) =>
           txn[c] \in requeued \/ ReceiptBlock[txn[c]] = 0]_vars
  BY Zenon, <1>3
<1> QED
  BY <1>1, <1>2, <1>4, PTL DEF Spec, OnlyRetriesMoveBack
=============================================================================
