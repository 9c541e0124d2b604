------------------------- MODULE PollingRefinement -------------------------
(* The proofs that Polling implements Delivery and that it distributes a   *)
(* transaction at most once per run, for every value of the constants.     *)
EXTENDS PollingProofs

(* The scan is at a block that has been mined, and so are the transactions *)
(* the producer has in hand, the channel holds and the consumers work on.  *)
Mined(tx) == BlockOf[tx] <= head[ChainOf[tx]]

ScanMined ==
  \A ch \in Chains :
    pc[ch] \in {"scan", "send"} =>
      /\ blk[ch] # 0
      /\ blk[ch] <= chainCurrentBlockNum[ch]
      /\ chainCurrentBlockNum[ch] <= head[ch]

HandMined ==
  \A ch \in Chains : \A tx \in txIDs[ch] : ChainOf[tx] = ch /\ Mined(tx)
QueueMined == \A tx \in Tx : Queued(tx) => Mined(tx)
HeldMined == \A tx \in Tx : Held(tx) => Mined(tx)

AllMined == ScanMined /\ HandMined /\ QueueMined /\ HeldMined

-----------------------------------------------------------------------------
LEMMA AtMost ==
  ASSUME NEW a \in Nat, NEW b \in Nat, NEW c \in Nat, a <= b, b <= c
  PROVE  a <= c
  OBVIOUS

(* Blocks only get mined.                                                  *)
LEMMA HeadGrows ==
  ASSUME TypeInv, [Next]_vars, NEW tx \in Tx, Mined(tx)
  PROVE  Mined(tx)'
<1>0. ChainOf[tx] \in Chains /\ BlockOf[tx] \in Nat
  BY PollingAssumptions
<1>1. head \in [Chains -> Nat]
  BY PollingAssumptions DEF TypeInv, TypeOK
<1>2. head' = head \/ \E ch \in Chains : head' = [head EXCEPT ![ch] = @ + 1]
  BY ZenonT(30) DEF Next, Producer, Consumer, Settle, NewBlock, Cancel, Poll, PollAt, Scan,
     Send, Return, Panic, Restart, Recv, Stop, NoReceipt, Requeue, DropFailed,
     Refuse, Distribute, SetStartBlock, Crash, vars
<1>3. head'[ChainOf[tx]] = head[ChainOf[tx]] \/ head'[ChainOf[tx]] = head[ChainOf[tx]] + 1
  BY <1>0, <1>1, <1>2
<1>4. head[ChainOf[tx]] \in Nat
  BY <1>0, <1>1
<1>5. BlockOf[tx] <= head[ChainOf[tx]]
  BY Zenon DEF Mined
<1>6. BlockOf[tx] <= head'[ChainOf[tx]]
  BY ONLY SMTT(30), <1>0, <1>3, <1>4, <1>5
<1> QED
  BY Zenon, <1>6 DEF Mined

-----------------------------------------------------------------------------
(* Where what is on the channel, or held, was before a step.               *)

(* A transaction comes onto the channel from a producer's or a consumer's  *)
(* hands.                                                                  *)
LEMMA QueuedFrom ==
  ASSUME TypeInv, HandMined, [Next]_vars, NEW tx \in Tx, Queued(tx)'
  PROVE  Queued(tx) \/ Held(tx) \/ Sending(tx)
<1>1. ASSUME NEW ch \in Chains, Send(ch) PROVE Queued(tx) \/ Sending(tx)
  <2>1. PICK e \in txIDs[ch] : newTxn' = Append(newTxn, e)
    BY Zenon, <1>1 DEF Send
  <2>2. e \in Tx /\ Sending(e)
    BY Zenon, <1>1, <2>1 DEF Send, Sending, HandMined, TypeInv, TypeOK
  <2> QED
    BY Zenon, <2>1, <2>2, AppendFrom
<1>2. ASSUME NEW c \in Consumers, Requeue(c) PROVE Queued(tx) \/ Held(tx)
  <2>1. newTxn' = Append(newTxn, txn[c]) /\ txn[c] \in Tx /\ Held(txn[c])
    BY Zenon, <1>2 DEF Requeue, Held, TypeInv, Holding
  <2> QED
    BY Zenon, <2>1, AppendFrom
<1>3. ASSUME NEW c \in Consumers, Recv(c) PROVE Queued(tx)
  BY Zenon, <1>3, TailFrom DEF Recv
<1>4. CASE Crash
  <2>1. newTxn' = <<>>
    BY <1>4 DEF Crash
  <2> QED
    BY <2>1 DEF Queued
<1>5. CASE UNCHANGED newTxn
  BY Zenon, <1>5 DEF Queued
<1> QED
  BY Zenon, <1>1, <1>2, <1>3, <1>4, <1>5 DEF Next, Producer, Consumer, Settle, NewBlock,
     Cancel, Poll, PollAt, Scan, Return, Panic, Restart, Stop, NoReceipt, DropFailed,
     Refuse, Distribute, SetStartBlock, vars

(* A consumer gets a transaction from the channel.                         *)
LEMMA HeldFrom ==
  ASSUME TypeInv, [Next]_vars, NEW tx \in Tx, Held(tx)'
  PROVE  Held(tx) \/ Queued(tx)
<1>1. PICK d \in Consumers : cpc'[d] \in {"check", "requeue"} /\ txn'[d] = tx
  BY Zenon DEF Held
<1>t. cpc \in [Consumers -> {"none", "idle", "check", "requeue", "checkpoint"}]
      /\ txn \in [Consumers -> Tx \cup {NoTx}]
  BY DEF TypeInv, TypeOK
<1>2. ASSUME NEW c \in Consumers, Recv(c) PROVE Held(tx) \/ Queued(tx)
  <2>1. CASE d = c
    <3>1. txn'[d] = Head(newTxn) /\ newTxn # <<>>
      BY Zenon, <1>2, <1>t, <2>1 DEF Recv
    <3> QED
      BY Zenon, <1>1, <3>1, HeadQueued
  <2>2. CASE d # c
    <3>1. cpc'[d] = cpc[d] /\ txn'[d] = txn[d]
      BY Zenon, <1>2, <1>t, <2>2 DEF Recv
    <3> QED
      BY Zenon, <1>1, <3>1 DEF Held
  <2> QED
    BY <2>1, <2>2
<1>3. ASSUME NEW c \in Consumers, NoReceipt(c) PROVE Held(tx)
  <2>1. /\ cpc[c] = "check" /\ txn' = txn
        /\ cpc' = [cpc EXCEPT ![c] = "requeue"]
    BY Zenon, <1>3 DEF NoReceipt
  <2>2. cpc[d] \in {"check", "requeue"}
    BY <1>1, <1>t, <2>1
  <2> QED
    BY Zenon, <1>1, <2>1, <2>2 DEF Held
<1>4. ASSUME NEW c \in Consumers, NEW p \in {"none", "idle", "checkpoint"},
             NEW t, cpc' = [cpc EXCEPT ![c] = p],
             txn' = [txn EXCEPT ![c] = t] \/ txn' = txn
      PROVE  Held(tx)
  <2>1. d # c
    BY <1>1, <1>4, <1>t
  <2>2. cpc'[d] = cpc[d] /\ txn'[d] = txn[d]
    BY Zenon, <1>4, <1>t, <2>1
  <2> QED
    BY Zenon, <1>1, <2>2 DEF Held
<1>5. ASSUME NEW c \in Consumers, Stop(c) \/ Requeue(c) \/ Settle(c) \/ SetStartBlock(c)
      PROVE  Held(tx)
  <2>1. \E p \in {"none", "idle", "checkpoint"} :
          /\ cpc' = [cpc EXCEPT ![c] = p]
          /\ txn' = [txn EXCEPT ![c] = NoTx] \/ txn' = txn
    BY Zenon, <1>5 DEF Stop, Requeue, Settle, DropFailed, Refuse, Distribute, SetStartBlock,
       Idle
  <2> QED
    BY Zenon, <1>4, <2>1
<1>6. ASSUME NEW ch \in Chains, Restart(ch) PROVE Held(tx)
  <2>1. <<ch, run[ch] + 1>> \in Consumers
    <3>1. run[ch] \in 1 .. MaxRuns /\ run[ch] < MaxRuns
      BY Zenon, <1>6 DEF Restart, TypeInv, TypeOK, FreshRuns
    <3>2. run[ch] + 1 \in 1 .. MaxRuns
      BY SMTT(30), <3>1, PollingAssumptions
    <3> QED
      BY Zenon, <3>2 DEF Consumers
  <2>2. cpc' = [cpc EXCEPT ![<<ch, run[ch] + 1>>] = "idle"] /\ txn' = txn
    BY Zenon, <1>6 DEF Restart
  <2> QED
    BY Zenon, <1>4, <2>1, <2>2
<1>7. CASE Crash
  <2>1. cpc'[d] \in {"idle", "none"}
    BY Zenon, <1>7 DEF Crash
  <2> QED
    BY <1>1, <2>1
<1>8. CASE UNCHANGED consumerVars
  BY Zenon, <1>1, <1>8 DEF consumerVars, Held
<1> QED
  BY Zenon, <1>2, <1>3, <1>5, <1>6, <1>7, <1>8 DEF Next, Producer, Consumer, NewBlock,
     Cancel, Poll, PollAt, Scan, Send, Return, Panic, vars

-----------------------------------------------------------------------------
(* Only blocks that the node has reported are scanned.                     *)
LEMMA NextScanMined == TypeInv /\ ScanMined /\ [Next]_vars => ScanMined'
<1> SUFFICES ASSUME TypeInv, ScanMined, [Next]_vars,
                    NEW k \in Chains, pc'[k] \in {"scan", "send"}
             PROVE  /\ blk'[k] # 0
                    /\ blk'[k] <= chainCurrentBlockNum'[k]
                    /\ chainCurrentBlockNum'[k] <= head'[k]
  BY Zenon DEF ScanMined
<1>t. /\ pc \in [Chains -> {"poll", "scan", "send", "done", "recovered"}]
      /\ blk \in [Chains -> Nat]
      /\ chainCurrentBlockNum \in [Chains -> Nat]
      /\ currentBlockNum \in [Chains -> Nat]
      /\ head \in [Chains -> Nat]
  BY SMTT(30), PollingAssumptions DEF TypeInv, TypeOK
<1>n. blk[k] \in Nat /\ chainCurrentBlockNum[k] \in Nat /\ head[k] \in Nat
  BY <1>t
<1>s. pc[k] \in {"scan", "send"} => /\ blk[k] # 0
                                   /\ blk[k] <= chainCurrentBlockNum[k]
                                   /\ chainCurrentBlockNum[k] <= head[k]
  BY Zenon DEF ScanMined
<1>1. CASE /\ pc'[k] = pc[k] /\ blk'[k] = blk[k]
           /\ chainCurrentBlockNum'[k] = chainCurrentBlockNum[k]
           /\ head'[k] = head[k] \/ head'[k] = head[k] + 1
  <2>1. head[k] <= head'[k] /\ head'[k] \in Nat
    BY <1>n, <1>1
  <2> QED
    BY Zenon, <1>n, <1>s, <1>1, <2>1, AtMost
<1>2. ASSUME NEW ch \in Chains, ch # k, Producer(ch) \/ Panic(ch) \/ Restart(ch)
      PROVE  /\ pc'[k] = pc[k] /\ blk'[k] = blk[k]
             /\ chainCurrentBlockNum'[k] = chainCurrentBlockNum[k] /\ head'[k] = head[k]
  BY ZenonT(30), <1>t, <1>2 DEF Producer, Poll, PollAt, Scan, Send, NextBlock, Return, Panic, Restart
<1>3. CASE Poll(k)
  <2>1. PICK n \in 1 .. head[k] : PollAt(k, n)
    BY Zenon, <1>3 DEF Poll
  <2> DEFINE cur == IF currentBlockNum[k] = 0 THEN ResumePoint(k)
                    ELSE currentBlockNum[k]
  <2>2. cur \in Nat
    BY <1>t, PollingAssumptions DEF ResumePoint, TypeInv, TypeOK
  <2>3. /\ cur < n /\ blk'[k] = cur + 1 /\ chainCurrentBlockNum'[k] = n
        /\ head' = head
    <3>1. pc[k] = "poll" /\ pc'[k] # pc[k]
      BY <2>1 DEF PollAt
    <3> QED
      BY ZenonT(30), <1>t, <2>1, <3>1 DEF PollAt
  <2> HIDE DEF cur
  <2> QED
    BY SMTT(30), <1>n, <2>2, <2>3
<1>4. ASSUME NextBlock(k), pc[k] \in {"scan", "send"},
             UNCHANGED <<head, chainCurrentBlockNum>>
      PROVE  /\ blk'[k] # 0
             /\ blk'[k] <= chainCurrentBlockNum'[k]
             /\ chainCurrentBlockNum'[k] <= head'[k]
  <2>1. blk[k] < chainCurrentBlockNum[k] /\ blk'[k] = blk[k] + 1
    <3>1. pc'[k] # "poll"
      OBVIOUS
    <3> QED
      BY Zenon, <1>t, <1>4, <3>1 DEF NextBlock
  <2> QED
    BY SMTT(30), <1>n, <1>s, <1>4, <2>1
<1>5. CASE Scan(k) \/ Send(k)
  <2>1. pc[k] \in {"scan", "send"} /\ UNCHANGED <<head, chainCurrentBlockNum>>
    BY Zenon, <1>5 DEF Scan, Send
  <2>2. NextBlock(k) \/ UNCHANGED blk
    BY Zenon, <1>5 DEF Scan, Send
  <2> QED
    BY Zenon, <1>s, <1>4, <2>1, <2>2
<1>6. CASE Return(k) \/ Panic(k) \/ Restart(k) \/ Crash
  <2>1. pc'[k] \in {"done", "recovered", "poll"}
    BY Zenon, <1>t, <1>6 DEF Return, Panic, Restart, Crash
  <2> QED
    BY <2>1
<1>7. CASE \E ch \in Chains : NewBlock(ch)
  BY <1>t, <1>1, <1>7 DEF NewBlock, producerVars
<1>8. CASE UNCHANGED <<producerVars, head>>
  BY Zenon, <1>1, <1>8 DEF producerVars
<1> QED
  BY Zenon, <1>1, <1>2, <1>3, <1>5, <1>6, <1>7, <1>8 DEF Next, Producer, Consumer, Settle, Cancel,
     Recv, Stop, NoReceipt, Requeue, DropFailed, Refuse, Distribute, SetStartBlock, vars

(* What the producer has in hand is of its chain and its block.            *)
LEMMA NextHandMined == TypeInv /\ ScanMined /\ HandMined /\ [Next]_vars => HandMined'
<1> SUFFICES ASSUME TypeInv, ScanMined, HandMined, [Next]_vars,
                    NEW k \in Chains, NEW tx \in txIDs'[k]
             PROVE  ChainOf[tx] = k /\ Mined(tx)'
  BY Zenon DEF HandMined
<1>t. txIDs \in [Chains -> SUBSET Tx]
  BY DEF TypeInv, TypeOK
<1>1. CASE tx \in txIDs[k]
  <2>1. tx \in Tx /\ ChainOf[tx] = k /\ Mined(tx)
    BY Zenon, <1>t, <1>1 DEF HandMined
  <2> QED
    BY <2>1, HeadGrows
<1>2. CASE Scan(k)
  <2>1. CASE txIDs' = txIDs
    BY <1>1, <2>1
  <2>2. CASE txIDs' = [txIDs EXCEPT ![k] = FilterTrans(k, blk[k])]
    <3>1. tx \in Tx /\ ChainOf[tx] = k /\ BlockOf[tx] = blk[k]
      BY Zenon, <1>t, <2>2 DEF FilterTrans
    <3>2. blk[k] <= chainCurrentBlockNum[k] /\ chainCurrentBlockNum[k] <= head[k]
      BY Zenon, <1>2 DEF Scan, ScanMined
    <3>3. blk[k] \in Nat /\ chainCurrentBlockNum[k] \in Nat /\ head[k] \in Nat
      BY PollingAssumptions DEF TypeInv, TypeOK
    <3>4. BlockOf[tx] <= head[k]
      BY Zenon, <3>1, <3>2, <3>3, AtMost
    <3> QED
      BY <3>1, <3>4, HeadGrows DEF Mined
  <2> QED
    BY Zenon, <1>2, <2>1, <2>2 DEF Scan
<1>3. ASSUME NEW ch \in Chains, Scan(ch), ch # k PROVE tx \in txIDs[k]
  BY Zenon, <1>t, <1>3 DEF Scan
<1>4. ASSUME NEW ch \in Chains, Send(ch) PROVE tx \in txIDs[k]
  <2>1. PICK e : txIDs' = [txIDs EXCEPT ![ch] = txIDs[ch] \ {e}]
    BY Zenon, <1>4 DEF Send
  <2> QED
    BY <1>t, <2>1
<1>5. ASSUME NEW ch \in Chains, Restart(ch) PROVE tx \in txIDs[k]
  <2>1. txIDs' = [txIDs EXCEPT ![ch] = {}]
    BY Zenon, <1>5 DEF Restart
  <2> QED
    BY <1>t, <2>1
<1>6. CASE Crash
  BY Zenon, <1>6 DEF Crash
<1>7. CASE UNCHANGED txIDs
  BY <1>1, <1>7
<1> QED
  BY ZenonT(30), <1>1, <1>2, <1>3, <1>4, <1>5, <1>6, <1>7 DEF Next, Producer, Consumer, Settle,
     NewBlock, Cancel, Poll, PollAt, Return, Panic, Recv, Stop, NoReceipt, Requeue,
     DropFailed, Refuse, Distribute, SetStartBlock, vars, producerVars

(* Everything the scanner has in hand has been mined.                      *)
LEMMA NextAllMined == TypeInv /\ AllMined /\ [Next]_vars => AllMined'
<1> SUFFICES ASSUME TypeInv, AllMined, [Next]_vars PROVE AllMined'
  OBVIOUS
<1>1. ScanMined' /\ HandMined'
  BY NextScanMined, NextHandMined DEF AllMined
<1>2. ASSUME NEW tx \in Tx, Sending(tx) PROVE Mined(tx)
  <2>1. ChainOf[tx] \in Chains
    BY PollingAssumptions
  <2> QED
    BY Zenon, <1>2, <2>1 DEF Sending, AllMined, HandMined
<1>3. QueueMined'
  BY Zenon, <1>2, QueuedFrom, HeadGrows DEF AllMined, QueueMined, HeldMined
<1>4. HeldMined'
  BY Zenon, HeldFrom, HeadGrows DEF AllMined, QueueMined, HeldMined
<1> QED
  BY Zenon, <1>1, <1>3, <1>4 DEF AllMined

LEMMA InitAllMined == Init => AllMined
<1> SUFFICES ASSUME Init PROVE AllMined
  OBVIOUS
<1>1. ScanMined
  BY DEF Init, ScanMined
<1>2. HandMined
  BY Zenon DEF Init, HandMined
<1>3. QueueMined
  BY DEF Init, QueueMined, Queued
<1>4. HeldMined
  BY DEF Init, HeldMined, Held
<1> QED
  BY Zenon, <1>1, <1>2, <1>3, <1>4 DEF AllMined

-----------------------------------------------------------------------------
LEMMA StepDown == ASSUME NEW a \in Nat, NEW b \in Nat, a + 1 <= b PROVE a < b
  OBVIOUS

(* The producer does not go back, unless it panics or the process ends.    *)
LEMMA ProducerFrom ==
  ASSUME TypeInv, ScanMined, NEW tx \in Tx, NEW ch \in Chains,
         Poll(ch) \/ Scan(ch) \/ Send(ch) \/ Return(ch) \/ Restart(ch),
         (Sending(tx) \/ Ahead(tx))'
  PROVE  Sending(tx) \/ Ahead(tx)
<1> DEFINE b == BlockOf[tx]
           k == ChainOf[tx]
<1>t. /\ pc \in [Chains -> {"poll", "scan", "send", "done", "recovered"}]
      /\ blk \in [Chains -> Nat]
      /\ currentBlockNum \in [Chains -> Nat]
      /\ chainCurrentBlockNum \in [Chains -> Nat]
      /\ txIDs \in [Chains -> SUBSET Tx]
  BY DEF TypeInv, TypeOK
<1>n. k \in Chains /\ b \in Nat /\ blk[k] \in Nat /\ currentBlockNum[k] \in Nat
  BY <1>t, PollingAssumptions
<1>1. CASE k # ch
  <2>1. /\ pc'[k] = pc[k] /\ currentBlockNum'[k] = currentBlockNum[k]
        /\ blk'[k] = blk[k] /\ txIDs'[k] = txIDs[k]
    BY ZenonT(30), <1>t, <1>n, <1>1 DEF Poll, PollAt, Scan, Send, NextBlock, Return, Restart
  <2> QED
    BY Zenon, <2>1 DEF Sending, Ahead
<1>2. CASE k = ch /\ Poll(k)
  <2>0. pc[k] = "poll"
    BY Zenon, <1>2 DEF Poll, PollAt
  <2>1. CASE currentBlockNum[k] = 0
    BY Zenon, <2>0, <2>1 DEF Ahead
  <2>2. CASE currentBlockNum[k] # 0
    <3>1. \/ pc'[k] = "scan" /\ blk'[k] = currentBlockNum[k] + 1
          \/ pc'[k] = "poll" /\ currentBlockNum'[k] = currentBlockNum[k]
      BY ZenonT(30), <1>t, <1>n, <1>2, <2>0, <2>2 DEF Poll, PollAt
    <3>2. CASE pc'[k] = "scan" /\ blk'[k] = currentBlockNum[k] + 1
      <4>1. currentBlockNum[k] + 1 <= b
        BY <3>2 DEF Sending, Ahead
      <4> QED
        BY Zenon, <1>n, <2>0, <4>1, StepDown DEF Ahead
    <3>3. CASE pc'[k] = "poll" /\ currentBlockNum'[k] = currentBlockNum[k]
      BY <2>0, <2>2, <3>3 DEF Sending, Ahead
    <3> QED
      BY <3>1, <3>2, <3>3
  <2> QED
    BY <2>1, <2>2
<1>3. ASSUME NextBlock(k), pc[k] \in {"scan", "send"}
      PROVE  blk[k] < b
  <2>1. CASE pc' = [pc EXCEPT ![k] = "scan"] /\ blk' = [blk EXCEPT ![k] = @ + 1]
    <3>1. pc'[k] = "scan" /\ blk'[k] = blk[k] + 1
      BY <1>t, <1>n, <2>1
    <3>2. blk[k] + 1 <= b
      BY <3>1 DEF Sending, Ahead
    <3> QED
      BY Zenon, <1>n, <3>2, StepDown
  <2>2. CASE /\ blk[k] = chainCurrentBlockNum[k]
             /\ pc' = [pc EXCEPT ![k] = "poll"]
             /\ currentBlockNum' = [currentBlockNum EXCEPT ![k] = chainCurrentBlockNum[k]]
    <3>1. pc'[k] = "poll" /\ currentBlockNum'[k] = blk[k]
      BY <1>t, <1>n, <2>2
    <3>2. blk[k] # 0
      BY Zenon, <1>3, <1>n DEF ScanMined
    <3> QED
      BY <3>1, <3>2 DEF Sending, Ahead
  <2> QED
    BY Zenon, <1>3, <2>1, <2>2 DEF NextBlock
<1>4. CASE k = ch /\ Scan(k)
  <2>0. pc[k] = "scan"
    BY Zenon, <1>4 DEF Scan
  <2>1. CASE NextBlock(k)
    BY Zenon, <1>n, <1>3, <2>0, <2>1, LessAtMost DEF Ahead
  <2>2. CASE /\ txIDs' = [txIDs EXCEPT ![k] = FilterTrans(k, blk[k])]
             /\ pc' = [pc EXCEPT ![k] = "send"]
             /\ UNCHANGED blk
    <3>1. pc'[k] = "send" /\ txIDs'[k] = FilterTrans(k, blk[k]) /\ blk'[k] = blk[k]
      BY Zenon, <1>t, <1>n, <2>2
    <3>2. b = blk[k] \/ blk[k] < b
      BY <3>1 DEF Sending, Ahead, FilterTrans
    <3> QED
      BY Zenon, <1>n, <2>0, <3>2, LessAtMost, AtMostItself DEF Ahead
  <2> QED
    BY Zenon, <1>4, <2>1, <2>2 DEF Scan
<1>5. CASE k = ch /\ Send(k)
  <2>0. pc[k] = "send"
    BY Zenon, <1>5 DEF Send
  <2>1. CASE NextBlock(k)
    BY Zenon, <1>3, <2>0, <2>1 DEF Ahead
  <2>2. CASE UNCHANGED <<pc, blk, currentBlockNum>>
    <3>1. txIDs'[k] \subseteq txIDs[k]
      <4>1. PICK e : txIDs' = [txIDs EXCEPT ![k] = txIDs[k] \ {e}]
        BY Zenon, <1>5 DEF Send
      <4> QED
        BY <1>t, <1>n, <4>1
    <3> QED
      BY Zenon, <2>2, <3>1 DEF Sending, Ahead
  <2> QED
    BY Zenon, <1>5, <2>1, <2>2 DEF Send
<1>6. CASE k = ch /\ Return(k)
  <2>1. pc[k] = "poll" /\ pc'[k] = "done" /\ currentBlockNum' = currentBlockNum
    BY Zenon, <1>t, <1>n, <1>6 DEF Return
  <2> QED
    BY <2>1 DEF Sending, Ahead
<1>7. CASE k = ch /\ Restart(k)
  BY Zenon, <1>7 DEF Restart, Ahead
<1> QED
  BY Zenon, <1>1, <1>2, <1>4, <1>5, <1>6, <1>7

-----------------------------------------------------------------------------
(* The steps, seen through the refinement mapping.                         *)

(* Nothing unsettled comes from nowhere when the producer does not go back. *)
LEMMA AccountedFrom ==
  ASSUME TypeInv, AllMined, [Next]_vars, NEW tx \in Tx, ~Settled(tx)', Accounted(tx)',
         (Sending(tx) \/ Ahead(tx))' => Sending(tx) \/ Ahead(tx)
  PROVE  Accounted(tx)
  BY Zenon, QueuedFrom, HeldFrom DEF Accounted, AllMined

(* A consumer's step: what else is accounted for stays so, and no more.    *)
LEMMA ConsumerSame ==
  ASSUME TypeInv, AllMined, NEW c \in Consumers, Consumer(c), NEW tx \in Tx, ~Settled(tx)'
  PROVE  Accounted(tx)' <=> Accounted(tx)
<1>1. Accounted(tx) => Accounted(tx)'
  BY ConsumerAccounts
<1>2. UNCHANGED producerVars /\ [Next]_vars
  BY Zenon DEF Next, Consumer, Settle, Recv, Stop, NoReceipt, Requeue, DropFailed, Refuse,
     Distribute, SetStartBlock
<1>3. (Sending(tx) \/ Ahead(tx))' => Sending(tx) \/ Ahead(tx)
  BY Zenon, <1>2 DEF Sending, Ahead, producerVars
<1> QED
  BY Zenon, <1>1, <1>2, <1>3, AccountedFrom

(* A producer's step, when no run resumes.                                 *)
LEMMA ProducerSame ==
  ASSUME TypeInv, AllMined, NEW ch \in Chains,
         Scan(ch) \/ Send(ch) \/ Return(ch) \/ Restart(ch),
         NEW tx \in Tx, ~Settled(tx)'
  PROVE  Accounted(tx)' <=> Accounted(tx)
<1>1. ~Poll(ch)
  <2>1. CASE Scan(ch) \/ Send(ch) \/ Restart(ch)
    BY Zenon, <2>1 DEF Scan, Send, Restart, Poll, PollAt
  <2>2. CASE Return(ch)
    BY <2>2 DEF Return, Poll, PollAt
  <2> QED
    BY Zenon, <2>1, <2>2
<1>2. Accounted(tx) => Accounted(tx)'
  <2>1. CASE Settled(tx) \/ Queued(tx) \/ Held(tx)
    BY Zenon, <2>1, ProducerKeeps
  <2>2. CASE (Sending(tx) \/ Ahead(tx)) /\ ChainOf[tx] = ch
    BY Zenon, <1>1, <2>2, OwnProducerAccounts
  <2>3. CASE (Sending(tx) \/ Ahead(tx)) /\ ChainOf[tx] # ch
    BY Zenon, <2>3, OtherProducer DEF Accounted
  <2> QED
    BY Zenon, <2>1, <2>2, <2>3 DEF Accounted
<1>3. [Next]_vars
  BY Zenon DEF Next, Producer
<1> QED
  BY Zenon, <1>2, <1>3, ProducerFrom, AccountedFrom DEF AllMined

LEMMA PendingSame ==
  ASSUME UNCHANGED <<distributed, discarded>>,
         \A tx \in Tx : ~Settled(tx)' => (Accounted(tx)' <=> Accounted(tx))
  PROVE  Pending' = Pending
<1>1. \A tx \in Tx : Settled(tx)' <=> Settled(tx)
  BY DEF Settled
<1> QED
  BY Zenon, <1>1 DEF Pending

(* Settling one transaction takes that one away.                           *)
LEMMA PendingLess ==
  ASSUME NEW t \in Tx,
         \A tx \in Tx : Settled(tx)' <=> Settled(tx) \/ tx = t,
         \A tx \in Tx : ~Settled(tx)' => (Accounted(tx)' <=> Accounted(tx))
  PROVE  Pending' = Pending \ {t}
  BY Zenon DEF Pending

(* A consumer that neither distributes nor stores a block hands nothing over. *)
LEMMA HandedSame ==
  ASSUME TypeInv, NEW c \in Consumers, cpc[c] # "checkpoint", NEW p,  p # "checkpoint",
         cpc' = [cpc EXCEPT ![c] = p],
         \A d \in Consumers : d # c => txn'[d] = txn[d]
  PROVE  Handed' = Handed
<1>1. cpc \in [Consumers -> {"none", "idle", "check", "requeue", "checkpoint"}]
  BY DEF TypeInv, TypeOK
<1>2. \A d \in Consumers : (IF cpc'[d] = "checkpoint" THEN txn'[d] ELSE NoTx)
                          = (IF cpc[d] = "checkpoint" THEN txn[d] ELSE NoTx)
  BY <1>1
<1> QED
  BY Zenon, <1>2 DEF Handed

(* Settling a transaction discards it or hands it over; storing its block  *)
(* sets the start block; all else a consumer does is a stutter.            *)
LEMMA ConsumerImplements ==
  ASSUME TypeInv, AllMined, NEW c \in Consumers, Consumer(c)
  PROVE  D!Next \/ UNCHANGED D!vars
<1>t. /\ cpc \in [Consumers -> {"none", "idle", "check", "requeue", "checkpoint"}]
      /\ txn \in [Consumers -> Tx \cup {NoTx}]
      /\ distributed \in [Tx -> Nat]
  BY DEF TypeInv, TypeOK
<1>s. \A tx \in Tx : ~Settled(tx)' => (Accounted(tx)' <=> Accounted(tx))
  BY Zenon, ConsumerSame
<1>d. ASSUME cpc[c] = "check"
      PROVE  txn[c] \in Tx /\ D!Due(txn[c])
  <2>1. txn[c] \in Tx /\ Held(txn[c])
    BY Zenon, <1>d DEF TypeInv, Holding, Held
  <2>2. Mined(txn[c]) /\ (txn[c] \in Pending \/ Settled(txn[c]))
    BY Zenon, <2>1 DEF AllMined, HeldMined, Pending, Accounted
  <2> QED
    BY Zenon, <2>1, <2>2 DEF D!Due, D!Settled, Settled, Mined
<1>1. CASE Recv(c) \/ Stop(c) \/ NoReceipt(c) \/ Requeue(c)
  <2>1. UNCHANGED <<head, startBlock, distributed, discarded>>
    BY Zenon, <1>1 DEF Recv, Stop, NoReceipt, Requeue, historyVars
  <2>2. Pending' = Pending
    BY Zenon, <1>s, <2>1, PendingSame
  <2>3. cpc[c] # "checkpoint"
    BY <1>1 DEF Recv, Stop, NoReceipt, Requeue
  <2>4. PICK p \in {"check", "none", "requeue", "idle"} : cpc' = [cpc EXCEPT ![c] = p]
    BY Zenon, <1>1 DEF Recv, Stop, NoReceipt, Requeue, Idle
  <2>5. \A d \in Consumers : d # c => txn'[d] = txn[d]
    BY Zenon, <1>1, <1>t DEF Recv, Stop, NoReceipt, Requeue, Idle
  <2>6. p # "checkpoint"
    BY <2>4
  <2>7. Handed' = Handed
    BY Zenon, <2>3, <2>4, <2>5, <2>6, HandedSame
  <2> QED
    BY Zenon, <2>1, <2>2, <2>7 DEF D!vars
<1>2. CASE DropFailed(c) \/ Refuse(c)
  <2>1. /\ cpc[c] = "check" /\ discarded' = discarded \cup {txn[c]}
        /\ cpc' = [cpc EXCEPT ![c] = "idle"] /\ txn' = [txn EXCEPT ![c] = NoTx]
        /\ UNCHANGED <<head, startBlock, distributed>>
    BY Zenon, <1>2 DEF DropFailed, Refuse, Idle
  <2>2. txn[c] \in Tx /\ D!Due(txn[c])
    BY <1>d, <2>1
  <2>3. \A tx \in Tx : Settled(tx)' <=> Settled(tx) \/ tx = txn[c]
    BY Zenon, <2>1 DEF Settled
  <2>4. Pending' = Pending \ {txn[c]}
    BY Zenon, <1>s, <2>2, <2>3, PendingLess
  <2>5. Handed' = Handed
    <3>1. cpc[c] # "checkpoint" /\ "idle" # "checkpoint"
      BY <2>1
    <3>2. \A d \in Consumers : d # c => txn'[d] = txn[d]
      BY Zenon, <1>t, <2>1
    <3> QED
      BY Zenon, <2>1, <3>1, <3>2, HandedSame
  <2>6. D!Discard(txn[c])
    BY Zenon, <2>1, <2>2, <2>4, <2>5 DEF D!Discard
  <2> QED
    BY Zenon, <2>2, <2>6 DEF D!Next
<1>3. CASE Distribute(c)
  <2>1. /\ cpc[c] = "check" /\ ChainOf[txn[c]] = c[1]
        /\ distributed' = [distributed EXCEPT ![txn[c]] = @ + 1]
        /\ cpc' = [cpc EXCEPT ![c] = "checkpoint"] /\ txn' = txn
        /\ UNCHANGED <<head, startBlock, discarded>>
    BY Zenon, <1>3 DEF Distribute
  <2>2. txn[c] \in Tx /\ D!Due(txn[c])
    BY <1>d, <2>1
  <2>3. \A tx \in Tx : Settled(tx)' <=> Settled(tx) \/ tx = txn[c]
    <3>1. \A tx \in Tx : distributed'[tx] > 0 <=> distributed[tx] > 0 \/ tx = txn[c]
      BY SMTT(30), <1>t, <2>1, <2>2
    <3> QED
      BY Zenon, <2>1, <3>1 DEF Settled
  <2>4. Pending' = Pending \ {txn[c]}
    BY Zenon, <1>s, <2>2, <2>3, PendingLess
  <2>5. Handed[c] = NoTx /\ Handed' = [Handed EXCEPT ![c] = txn[c]]
    <3>1. \A d \in Consumers :
            (IF cpc'[d] = "checkpoint" THEN txn'[d] ELSE NoTx)
              = (IF d = c THEN txn[c]
                 ELSE IF cpc[d] = "checkpoint" THEN txn[d] ELSE NoTx)
      BY <1>t, <2>1
    <3>2. cpc[c] # "checkpoint"
      BY <2>1
    <3> QED
      BY Zenon, <3>1, <3>2 DEF Handed
  <2>6. D!Distribute(c, txn[c])
    BY Zenon, <2>1, <2>2, <2>4, <2>5 DEF D!Distribute
  <2> QED
    BY Zenon, <2>2, <2>6 DEF D!Next
<1>4. CASE SetStartBlock(c)
  <2>1. /\ cpc[c] = "checkpoint"
        /\ startBlock' = [startBlock EXCEPT ![c[1]] = ReceiptBlock[txn[c]]]
        /\ cpc' = [cpc EXCEPT ![c] = "idle"] /\ txn' = [txn EXCEPT ![c] = NoTx]
        /\ UNCHANGED <<head, distributed, discarded>>
    BY Zenon, <1>4 DEF SetStartBlock, Idle, historyVars
  <2>2. Pending' = Pending
    BY Zenon, <1>s, <2>1, PendingSame
  <2>3. txn[c] \in Tx /\ txn[c] # NoTx
    BY Zenon, <2>1, PollingAssumptions DEF TypeInv, Holding
  <2>4. Handed[c] = txn[c] /\ Handed' = [Handed EXCEPT ![c] = NoTx]
    <3>1. \A d \in Consumers :
            (IF cpc'[d] = "checkpoint" THEN txn'[d] ELSE NoTx)
              = (IF d = c THEN NoTx
                 ELSE IF cpc[d] = "checkpoint" THEN txn[d] ELSE NoTx)
      BY <1>t, <2>1
    <3> QED
      BY Zenon, <2>1, <3>1 DEF Handed
  <2>5. D!SetStartBlock(c)
    BY Zenon, <2>1, <2>2, <2>3, <2>4 DEF D!SetStartBlock
  <2> QED
    BY Zenon, <2>5 DEF D!Next
<1> QED
  BY Zenon, <1>1, <1>2, <1>3, <1>4 DEF Consumer, Settle

(* Reading the block number again changes nothing, and the turn that reads *)
(* the start block passes over nothing above it.                           *)
LEMMA PollImplements ==
  ASSUME TypeInv, AllMined, NEW ch \in Chains, Poll(ch)
  PROVE  D!Resume(ch)
<1>1. UNCHANGED <<head, startBlock, distributed, discarded, consumerVars>>
  BY Zenon DEF Poll, PollAt
<1>2. Handed' = Handed
  BY Zenon, <1>1 DEF Handed, consumerVars
<1>3. \A tx \in Tx : Settled(tx)' <=> Settled(tx)
  BY Zenon, <1>1 DEF Settled
<1>4. Pending' \subseteq Pending
  <2>1. [Next]_vars
    BY Zenon DEF Next, Producer
  <2>2. ASSUME NEW tx \in Tx, ~Settled(tx)', Accounted(tx)' PROVE Accounted(tx)
    BY Zenon, <2>1, <2>2, ProducerFrom, AccountedFrom DEF AllMined
  <2> QED
    BY Zenon, <1>3, <2>2 DEF Pending
<1>5. ASSUME NEW tx \in Pending \ Pending'
      PROVE  tx \in Tx /\ ChainOf[tx] = ch /\ BlockOf[tx] <= ResumePoint(ch)
  <2>1. tx \in Tx /\ ~Settled(tx) /\ Accounted(tx) /\ ~Accounted(tx)'
    BY Zenon, <1>3, <1>5 DEF Pending
  <2>2. Sending(tx) \/ Ahead(tx)
    BY Zenon, <2>1, ProducerKeeps DEF Accounted
  <2>3. ChainOf[tx] = ch
    BY Zenon, <2>1, <2>2, OtherProducer DEF Accounted
  <2>4. ~(ResumePoint(ch) < BlockOf[tx])
    BY Zenon, <2>1, <2>2, <2>3, OwnProducerAccounts
  <2>5. ResumePoint(ch) \in Nat /\ BlockOf[tx] \in Nat
    BY <2>1, PollingAssumptions DEF ResumePoint, TypeInv, TypeOK
  <2>6. BlockOf[tx] <= ResumePoint(ch)
    BY ONLY SMTT(30), <2>4, <2>5
  <2> QED
    BY <2>1, <2>3, <2>6
<1>6. \E passed \in SUBSET {tx \in Pending : ChainOf[tx] = ch /\ BlockOf[tx] <= ResumePoint(ch)} :
        Pending' = Pending \ passed
  <2>1. Pending \ Pending'
          \in SUBSET {tx \in Pending : ChainOf[tx] = ch /\ BlockOf[tx] <= ResumePoint(ch)}
    BY Zenon, <1>5
  <2>2. Pending' = Pending \ (Pending \ Pending')
    BY Zenon, <1>4
  <2> QED
    BY Zenon, <2>1, <2>2
<1> QED
  BY Zenon, <1>1, <1>2, <1>6 DEF D!Resume, ResumePoint

(* A panic puts all of the chain's unsettled transactions ahead again.     *)
LEMMA PanicImplements ==
  ASSUME TypeInv, AllMined, NEW ch \in Chains, Panic(ch)
  PROVE  D!Panic(ch)
<1>1. UNCHANGED <<head, startBlock, newTxn, distributed, discarded, consumerVars>>
  BY Zenon DEF Panic, historyVars
<1>2. Handed' = Handed
  BY Zenon, <1>1 DEF Handed, consumerVars
<1>3. \A tx \in Tx : /\ Settled(tx)' <=> Settled(tx)
                     /\ Queued(tx)' <=> Queued(tx)
                     /\ Held(tx)' <=> Held(tx)
  BY Zenon, <1>1 DEF Settled, Queued, Held, consumerVars
<1>4. ASSUME NEW tx \in Tx, ChainOf[tx] = ch PROVE Accounted(tx)'
  <2>1. pc'[ch] = "recovered"
    BY DEF Panic, TypeInv, TypeOK
  <2> QED
    BY Zenon, <1>4, <2>1 DEF Accounted, Ahead
<1>5. ASSUME NEW tx \in Tx, ChainOf[tx] # ch PROVE Accounted(tx)' <=> Accounted(tx)
  <2>1. ChainOf[tx] \in Chains
    BY PollingAssumptions
  <2>2. /\ pc'[ChainOf[tx]] = pc[ChainOf[tx]]
        /\ UNCHANGED <<currentBlockNum, blk, txIDs>>
    BY Zenon, <1>5, <2>1 DEF Panic, TypeInv, TypeOK
  <2> QED
    BY Zenon, <1>3, <2>2 DEF Accounted, Sending, Ahead
<1>6. Pending' = Pending \cup {tx \in Tx : ChainOf[tx] = ch /\ ~Settled(tx)}
  BY Zenon, <1>3, <1>4, <1>5 DEF Pending
<1> QED
  BY Zenon, <1>1, <1>2, <1>6 DEF D!Panic, D!Settled, Settled

(* The end of the process does so for all chains, and what was handed over *)
(* is not stored any more.                                                 *)
LEMMA CrashImplements ==
  ASSUME TypeInv, Crash
  PROVE  D!Crash
<1>1. UNCHANGED <<head, startBlock, distributed, discarded>>
  BY Zenon DEF Crash, historyVars
<1>2. Handed' = [c \in Consumers |-> NoTx]
  <2>1. \A c \in Consumers : cpc'[c] # "checkpoint"
    BY DEF Crash
  <2> QED
    BY Zenon, <2>1 DEF Handed
<1>3. ASSUME NEW tx \in Tx PROVE Accounted(tx)' /\ ChainOf[tx] \in Chains
  <2>1. ChainOf[tx] \in Chains
    BY PollingAssumptions
  <2>2. pc'[ChainOf[tx]] = "poll" /\ currentBlockNum'[ChainOf[tx]] = 0
    BY Zenon, <2>1 DEF Crash
  <2> QED
    BY Zenon, <2>1, <2>2 DEF Accounted, Ahead
<1>4. \A tx \in Tx : Settled(tx)' <=> Settled(tx)
  BY Zenon, <1>1 DEF Settled
<1>5. Pending' = {tx \in Tx : ~Settled(tx)}
  BY Zenon, <1>3, <1>4 DEF Pending
<1> QED
  BY Zenon, <1>1, <1>2, <1>5 DEF D!Crash, D!Settled, Settled

(* A restart after a panic starts a consumer with empty hands.             *)
LEMMA RestartHands ==
  ASSUME TypeInv, NEW ch \in Chains, Restart(ch)
  PROVE  Handed' = Handed
<1>1. run[ch] \in 1 .. MaxRuns /\ run[ch] < MaxRuns
  BY Zenon DEF Restart, TypeInv, TypeOK, FreshRuns
<1>2. run[ch] + 1 \in 1 .. MaxRuns /\ run[ch] + 1 > run[ch]
  BY SMTT(30), <1>1, PollingAssumptions
<1>3. <<ch, run[ch] + 1>> \in Consumers
  BY Zenon, <1>2 DEF Consumers
<1>4. cpc[<<ch, run[ch] + 1>>] = "none"
  BY <1>2, <1>3 DEF TypeInv, FreshRuns
<1>5. cpc' = [cpc EXCEPT ![<<ch, run[ch] + 1>>] = "idle"] /\ txn' = txn
  BY Zenon DEF Restart
<1>6. cpc[<<ch, run[ch] + 1>>] # "checkpoint" /\ "idle" # "checkpoint"
  BY <1>4
<1> QED
  BY Zenon, <1>3, <1>5, <1>6, HandedSame

(* Every step of the scanner is a step of Delivery or changes nothing there. *)
LEMMA NextImplements ==
  TypeInv /\ AllMined /\ [Next]_vars => D!Next \/ UNCHANGED D!vars
<1> SUFFICES ASSUME TypeInv, AllMined, [Next]_vars
             PROVE  D!Next \/ UNCHANGED D!vars
  OBVIOUS
<1>a. ASSUME UNCHANGED <<newTxn, producerVars, consumerVars, distributed, discarded>>
      PROVE  Pending' = Pending /\ Handed' = Handed
  BY Zenon, <1>a DEF Pending, Handed, Settled, Accounted, Queued, Held, Sending, Ahead,
     producerVars, consumerVars
<1>1. ASSUME NEW ch \in Chains, NewBlock(ch) PROVE D!Mine(ch)
  BY Zenon, <1>a, <1>1 DEF NewBlock, historyVars, D!Mine
<1>2. ASSUME NEW ch \in Chains, Cancel(ch) PROVE UNCHANGED D!vars
  BY Zenon, <1>a, <1>2 DEF Cancel, historyVars, D!vars
<1>3. ASSUME NEW ch \in Chains, Scan(ch) \/ Send(ch) \/ Return(ch) \/ Restart(ch)
      PROVE  UNCHANGED D!vars
  <2>1. UNCHANGED <<head, startBlock, distributed, discarded>>
    BY Zenon, <1>3 DEF Scan, Send, Return, Restart, historyVars
  <2>2. Pending' = Pending
    BY Zenon, <1>3, <2>1, ProducerSame, PendingSame
  <2>3. Handed' = Handed
    <3>1. CASE Restart(ch)
      BY Zenon, <3>1, RestartHands
    <3>2. CASE ~Restart(ch)
      BY Zenon, <1>3, <3>2 DEF Scan, Send, Return, Handed, consumerVars
    <3> QED
      BY <3>1, <3>2
  <2> QED
    BY Zenon, <2>1, <2>2, <2>3 DEF D!vars
<1>4. CASE UNCHANGED vars
  BY Zenon, <1>a, <1>4 DEF vars, historyVars, D!vars
<1> QED
  BY Zenon, <1>1, <1>2, <1>3, <1>4, PollImplements, PanicImplements, CrashImplements,
     ConsumerImplements DEF Next, Producer, D!Next

LEMMA InitImplements == Init => D!Init
<1> SUFFICES ASSUME Init PROVE D!Init
  OBVIOUS
<1>1. Pending = Tx
  <2>1. ASSUME NEW tx \in Tx PROVE ~Settled(tx) /\ Ahead(tx)
    BY PollingAssumptions DEF Init, Settled, Ahead
  <2> QED
    BY Zenon, <2>1 DEF Pending, Accounted
<1>2. Handed = [c \in Consumers |-> NoTx]
  <2>1. \A c \in Consumers : cpc[c] # "checkpoint"
    BY DEF Init
  <2> QED
    BY Zenon, <2>1 DEF Handed
<1> QED
  BY Zenon, <1>1, <1>2 DEF Init, D!Init

(* The polling scanner implements Delivery, whatever the chains, the       *)
(* capacity of the channel, and the interleaving of producers, consumers,  *)
(* panics, restarts and crashes: WipeBlock and StartScanChainEvents give   *)
(* up a transaction only when a run resumes at or above its block, and     *)
(* start blocks are those of transactions that were distributed.           *)
THEOREM ScannerDelivers == Spec => Delivers
<1>1. Init => TypeInv /\ AllMined /\ D!Init
  BY InitTypeInv, InitAllMined, InitImplements
<1>2. TypeInv /\ AllMined /\ [Next]_vars => (TypeInv /\ AllMined)'
  BY NextTypeInv, NextAllMined
<1>3. TypeInv /\ AllMined /\ [Next]_vars => [D!Next]_(D!vars)
  BY NextImplements
<1> QED
  BY <1>1, <1>2, <1>3, PTL DEF Spec, Delivers, D!Spec

-----------------------------------------------------------------------------
(* S has at most k elements: k places are enough for them.                 *)
Fits(S, k) == \E f : \A x \in S : \E i \in 1 .. k : f[i] = x

(* The copies of a transaction under way: its places on the channel and    *)
(* the consumers that hold it.                                             *)
Places(q, tx) == {n \in 1 .. Len(q) : q[n] = tx}
Holders(at, has, tx) == {c \in Consumers : at[c] \in {"check", "requeue"} /\ has[c] = tx}

(* The current run of tx's chain has yet to send it.                       *)
Coming(tx) == pc[ChainOf[tx]] # "recovered" /\ (Sending(tx) \/ Ahead(tx))
Owed(tx) == IF Coming(tx) THEN 1 ELSE 0

(* What was distributed, is under way and is yet to come adds up to no     *)
(* more than one per run.                                                  *)
InBudget(tx, p, h) ==
  /\ Fits(Places(newTxn, tx), p) /\ Fits(Holders(cpc, txn, tx), h)
  /\ distributed[tx] + p + h + Owed(tx) <= run[ChainOf[tx]]

Budget == \A tx \in Tx : \E p, h \in Nat : InBudget(tx, p, h)

OnceInv == HandBlock /\ Budget

-----------------------------------------------------------------------------
(* One element more takes one place more, one less leaves a place free.    *)
LEMMA FitsMore ==
  ASSUME NEW S, NEW x, NEW k \in Nat, Fits(S, k)
  PROVE  Fits(S \cup {x}, k + 1)
<1>1. PICK f : \A y \in S : \E i \in 1 .. k : f[i] = y
  BY Zenon DEF Fits
<1> DEFINE g == [i \in 1 .. k + 1 |-> IF i = k + 1 THEN x ELSE f[i]]
<1>2. \A i \in 1 .. k : i \in 1 .. k + 1 /\ g[i] = f[i]
  OBVIOUS
<1>3. k + 1 \in 1 .. k + 1 /\ g[k + 1] = x
  OBVIOUS
<1> HIDE DEF g
<1>4. \A y \in S \cup {x} : \E i \in 1 .. k + 1 : g[i] = y
  BY Zenon, <1>1, <1>2, <1>3
<1> QED
  BY Zenon, <1>4 DEF Fits

LEMMA FitsLess ==
  ASSUME NEW S, NEW x \in S, NEW k \in Nat, Fits(S, k)
  PROVE  \E n \in Nat : k = n + 1 /\ Fits(S \ {x}, n)
<1>1. PICK f : \A y \in S : \E i \in 1 .. k : f[i] = y
  BY Zenon DEF Fits
<1>2. PICK a \in 1 .. k : f[a] = x
  BY Zenon, <1>1
<1> DEFINE n == k - 1
           g == [i \in 1 .. n |-> IF i = a THEN f[k] ELSE f[i]]
<1>3. n \in Nat /\ k = n + 1
  OBVIOUS
<1>4. ASSUME NEW y \in S \ {x} PROVE \E i \in 1 .. n : g[i] = y
  <2>1. PICK i \in 1 .. k : f[i] = y
    BY Zenon, <1>1
  <2>2. i # a
    BY Zenon, <1>2, <2>1
  <2>3. CASE i = k
    <3>1. a \in 1 .. n /\ g[a] = f[k]
      BY <2>2, <2>3
    <3> HIDE DEF g, n
    <3> QED
      BY Zenon, <2>1, <2>3, <3>1
  <2>4. CASE i # k
    <3>1. i \in 1 .. n /\ g[i] = f[i]
      BY <2>2, <2>4
    <3> HIDE DEF g, n
    <3> QED
      BY Zenon, <2>1, <3>1
  <2> QED
    BY Zenon, <2>3, <2>4
<1> HIDE DEF g, n
<1>5. Fits(S \ {x}, n)
  BY Zenon, <1>4 DEF Fits
<1> QED
  BY Zenon, <1>3, <1>5

(* No element fits anywhere, and moving up by one changes nothing.         *)
LEMMA FitsShifted ==
  ASSUME NEW S, NEW T \in SUBSET Nat, NEW k \in Nat, Fits(S, k), \A n \in T : n + 1 \in S
  PROVE  Fits(T, k)
<1>1. PICK f : \A x \in S : \E i \in 1 .. k : f[i] = x
  BY Zenon DEF Fits
<1> DEFINE g == [i \in 1 .. k |-> f[i] - 1]
<1>2. ASSUME NEW n \in T PROVE \E i \in 1 .. k : g[i] = n
  <2>1. PICK i \in 1 .. k : f[i] = n + 1
    BY Zenon, <1>1
  <2>2. g[i] = n
    BY <2>1
  <2> HIDE DEF g
  <2> QED
    BY Zenon, <2>2
<1> HIDE DEF g
<1> QED
  BY Zenon, <1>2 DEF Fits

LEMMA FitsNone == ASSUME NEW k PROVE Fits({}, k)
  BY Zenon DEF Fits

(* A send adds a copy of what is sent and of nothing else.                 *)
LEMMA PlacesAppend ==
  ASSUME NEW q \in Seq(Tx), NEW e \in Tx, NEW tx, NEW k \in Nat, Fits(Places(q, tx), k)
  PROVE  IF e = tx THEN Fits(Places(Append(q, e), tx), k + 1)
                   ELSE Fits(Places(Append(q, e), tx), k)
<1>1. /\ Len(q) \in Nat
      /\ Len(Append(q, e)) = Len(q) + 1
      /\ \A n \in 1 .. Len(q) : Append(q, e)[n] = q[n]
      /\ Append(q, e)[Len(q) + 1] = e
  BY AppendQueue
<1>2. 1 .. Len(q) + 1 = (1 .. Len(q)) \cup {Len(q) + 1}
  BY <1>1
<1>3. CASE e = tx
  <2>1. Places(Append(q, e), tx) = Places(q, tx) \cup {Len(q) + 1}
    BY Zenon, <1>1, <1>2, <1>3 DEF Places
  <2>2. Fits(Places(q, tx) \cup {Len(q) + 1}, k + 1)
    BY Zenon, FitsMore
  <2> QED
    BY <1>3, <2>1, <2>2
<1>4. CASE e # tx
  <2>1. Places(Append(q, e), tx) = Places(q, tx)
    BY Zenon, <1>1, <1>2, <1>4 DEF Places
  <2> QED
    BY Zenon, <1>4, <2>1
<1> QED
  BY <1>3, <1>4

(* A receive takes off one copy of what it gets and of nothing else.       *)
LEMMA PlacesTail ==
  ASSUME NEW q \in Seq(Tx), q # <<>>, NEW tx, NEW k \in Nat, Fits(Places(q, tx), k)
  PROVE  IF Head(q) = tx THEN \E n \in Nat : k = n + 1 /\ Fits(Places(Tail(q), tx), n)
                         ELSE Fits(Places(Tail(q), tx), k)
<1>1. /\ Len(q) \in Nat /\ Len(q) # 0
      /\ Tail(q) \in Seq(Tx) /\ Len(Tail(q)) = Len(q) - 1
      /\ Head(q) = q[1]
      /\ \A n \in 1 .. Len(q) - 1 : Tail(q)[n] = q[n + 1]
  BY TailQueue
<1>2. /\ Places(Tail(q), tx) \in SUBSET Nat
      /\ \A n \in Places(Tail(q), tx) : n + 1 \in Places(q, tx) \ {1}
  BY <1>1 DEF Places
<1>3. ASSUME NEW n \in Nat, Fits(Places(q, tx) \ {1}, n) PROVE Fits(Places(Tail(q), tx), n)
  BY Zenon, <1>2, <1>3, FitsShifted
<1>4. 1 \in Places(q, tx) <=> Head(q) = tx
  BY <1>1 DEF Places
<1>5. CASE Head(q) = tx
  BY Zenon, <1>3, <1>4, <1>5, FitsLess
<1>6. CASE Head(q) # tx
  <2>1. Places(q, tx) \ {1} = Places(q, tx)
    BY Zenon, <1>4, <1>6
  <2> QED
    BY Zenon, <1>3, <1>6, <2>1
<1> QED
  BY Zenon, <1>5, <1>6

-----------------------------------------------------------------------------
(* What a consumer's step does to the holders of a transaction.            *)
LEMMA HoldersStep ==
  ASSUME TypeInv, NEW tx \in Tx, NEW c \in Consumers, NEW p, NEW t,
         cpc' = [cpc EXCEPT ![c] = p], txn' = [txn EXCEPT ![c] = t]
  PROVE  Holders(cpc', txn', tx) = IF p \in {"check", "requeue"} /\ t = tx
                                   THEN Holders(cpc, txn, tx) \cup {c}
                                   ELSE Holders(cpc, txn, tx) \ {c}
<1>1. cpc'[c] = p /\ txn'[c] = t
  BY Zenon DEF TypeInv, TypeOK
<1>2. \A d \in Consumers : d # c => cpc'[d] = cpc[d] /\ txn'[d] = txn[d]
  BY Zenon DEF TypeInv, TypeOK
<1> QED
  BY Zenon, <1>1, <1>2 DEF Holders

(* A consumer that takes t is one more holder of it.                       *)
LEMMA HolderTakes ==
  ASSUME TypeInv, NEW tx \in Tx, NEW c \in Consumers, NEW t, cpc[c] = "idle",
         cpc' = [cpc EXCEPT ![c] = "check"], txn' = [txn EXCEPT ![c] = t],
         NEW k \in Nat, Fits(Holders(cpc, txn, tx), k)
  PROVE  IF t = tx THEN Fits(Holders(cpc', txn', tx), k + 1)
                   ELSE Fits(Holders(cpc', txn', tx), k)
<1> DEFINE H == Holders(cpc, txn, tx)
<1>1. c \notin H
  BY DEF Holders
<1>2. Holders(cpc', txn', tx) = IF t = tx THEN H \cup {c} ELSE H \ {c}
  BY Zenon, HoldersStep
<1>3. Fits(H, k) /\ Fits(H \cup {c}, k + 1)
  BY Zenon, FitsMore
<1> HIDE DEF H
<1>4. H \ {c} = H
  BY Zenon, <1>1
<1>5. CASE t = tx
  BY Zenon, <1>2, <1>3, <1>5
<1>6. CASE t # tx
  BY Zenon, <1>2, <1>3, <1>4, <1>6
<1> QED
  BY Zenon, <1>5, <1>6

(* A consumer that lets go of its transaction is one holder less.          *)
LEMMA HolderLeaves ==
  ASSUME TypeInv, NEW tx \in Tx, NEW c \in Consumers, NEW p, NEW t,
         cpc[c] = "check" \/ cpc[c] = "requeue", p = "idle" \/ p = "checkpoint",
         cpc' = [cpc EXCEPT ![c] = p], txn' = [txn EXCEPT ![c] = t],
         NEW k \in Nat, Fits(Holders(cpc, txn, tx), k)
  PROVE  IF txn[c] = tx THEN \E n \in Nat : k = n + 1 /\ Fits(Holders(cpc', txn', tx), n)
                        ELSE Fits(Holders(cpc', txn', tx), k)
<1> DEFINE H == Holders(cpc, txn, tx)
<1>1. c \in H <=> txn[c] = tx
  BY DEF Holders
<1>2. Holders(cpc', txn', tx) = H \ {c}
  <2>1. p \notin {"check", "requeue"}
    OBVIOUS
  <2> QED
    BY Zenon, <2>1, HoldersStep
<1>3. Fits(H, k)
  OBVIOUS
<1> HIDE DEF H
<1>4. CASE txn[c] = tx
  <2>1. \E n \in Nat : k = n + 1 /\ Fits(H \ {c}, n)
    BY Zenon, <1>1, <1>3, <1>4, FitsLess
  <2> QED
    BY Zenon, <1>2, <1>4, <2>1
<1>5. CASE txn[c] # tx
  <2>1. H \ {c} = H
    BY Zenon, <1>1, <1>5
  <2> QED
    BY Zenon, <1>2, <1>3, <1>5, <2>1
<1> QED
  BY Zenon, <1>4, <1>5

(* Other steps of consumers do not change who holds what.                  *)
LEMMA HoldersSame ==
  ASSUME TypeInv, NEW tx \in Tx, NEW c \in Consumers,
         Stop(c) \/ NoReceipt(c) \/ SetStartBlock(c)
  PROVE  Holders(cpc', txn', tx) = Holders(cpc, txn, tx)
<1>t. /\ cpc \in [Consumers -> {"none", "idle", "check", "requeue", "checkpoint"}]
      /\ txn \in [Consumers -> Tx \cup {NoTx}]
  BY DEF TypeInv, TypeOK
<1>1. \A d \in Consumers : d # c => cpc'[d] = cpc[d] /\ txn'[d] = txn[d]
  BY Zenon, <1>t DEF Stop, NoReceipt, SetStartBlock, Idle
<1>2. CASE NoReceipt(c)
  <2>1. cpc[c] = "check" /\ cpc'[c] = "requeue" /\ txn'[c] = txn[c]
    BY Zenon, <1>t, <1>2 DEF NoReceipt
  <2> QED
    BY Zenon, <1>1, <2>1 DEF Holders
<1>3. CASE Stop(c) \/ SetStartBlock(c)
  <2>1. cpc[c] \in {"idle", "checkpoint"} /\ cpc'[c] \in {"none", "idle"}
    BY Zenon, <1>t, <1>3 DEF Stop, SetStartBlock, Idle
  <2>2. c \notin Holders(cpc, txn, tx) /\ c \notin Holders(cpc', txn', tx)
    BY <2>1 DEF Holders
  <2> QED
    BY Zenon, <1>1, <2>2 DEF Holders
<1> QED
  BY Zenon, <1>2, <1>3

-----------------------------------------------------------------------------
(* The run does not come to owe what it did not owe.                       *)
LEMMA ComingFrom ==
  ASSUME TypeInv, ScanMined, NEW tx \in Tx, NEW ch \in Chains,
         Poll(ch) \/ Scan(ch) \/ Send(ch) \/ Return(ch), Coming(tx)'
  PROVE  Coming(tx)
<1>1. Sending(tx) \/ Ahead(tx)
  BY Zenon, ProducerFrom DEF Coming
<1>t. pc \in [Chains -> {"poll", "scan", "send", "done", "recovered"}]
      /\ ChainOf[tx] \in Chains
  BY PollingAssumptions DEF TypeInv, TypeOK
<1>2. CASE ChainOf[tx] = ch
  BY Zenon, <1>1, <1>2 DEF Coming, Poll, PollAt, Scan, Send, Return
<1>3. CASE ChainOf[tx] # ch
  <2>1. pc'[ChainOf[tx]] = pc[ChainOf[tx]]
    BY ZenonT(30), <1>t, <1>3 DEF Poll, PollAt, Scan, Send, NextBlock, Return
  <2> QED
    BY Zenon, <1>1, <2>1 DEF Coming
<1> QED
  BY <1>2, <1>3

LEMMA NotBelowItself == ASSUME NEW a \in Nat PROVE ~(a < a) /\ ~(a + 1 <= a)
  OBVIOUS

(* What has been sent is not owed any more: its block is the one the       *)
(* producer is at.                                                         *)
LEMMA SentOnce ==
  ASSUME TypeInv, ScanMined, HandBlock, NEW ch \in Chains, NEW e \in txIDs[ch],
         pc[ch] = "send", txIDs' = [txIDs EXCEPT ![ch] = txIDs[ch] \ {e}],
         NextBlock(ch) \/ UNCHANGED <<pc, blk, currentBlockNum>>
  PROVE  Coming(e) /\ ~Coming(e)'
<1>t. txIDs \in [Chains -> SUBSET Tx] /\ blk[ch] \in Nat
  BY DEF TypeInv, TypeOK
<1>1. ChainOf[e] = ch /\ BlockOf[e] = blk[ch] /\ blk[ch] # 0
  BY Zenon DEF HandBlock, ScanMined
<1>2. Coming(e)
  BY Zenon, <1>1 DEF Coming, Sending
<1>3. e \notin txIDs'[ch]
  BY <1>t
<1>4. CASE NextBlock(ch)
  BY <1>t, <1>1, <1>4, NextBlockLeaves, NotBelowItself DEF Coming, Sending, Ahead
<1>5. CASE UNCHANGED <<pc, blk, currentBlockNum>>
  BY <1>t, <1>1, <1>3, <1>5, NotBelowItself DEF Coming, Sending, Ahead
<1> QED
  BY <1>2, <1>4, <1>5

-----------------------------------------------------------------------------
(* The summands of the budget are numbers.                                 *)
LEMMA BudgetTypes ==
  ASSUME TypeInv, NEW tx \in Tx
  PROVE  /\ distributed[tx] \in Nat /\ Owed(tx) \in {0, 1}
         /\ ChainOf[tx] \in Chains /\ run[ChainOf[tx]] \in Nat
  BY PollingAssumptions DEF TypeInv, TypeOK, Owed

(* A consumer moves a copy from one place to another, or settles it.       *)
LEMMA ConsumerBudget ==
  ASSUME TypeInv, NEW tx \in Tx, NEW c \in Consumers, Consumer(c),
         NEW p \in Nat, NEW h \in Nat, InBudget(tx, p, h)
  PROVE  \E p2, h2 \in Nat : InBudget(tx, p2, h2)'
<1> DEFINE d == distributed[tx]
           d2 == distributed'[tx]
           k == Owed(tx)
           r == run[ChainOf[tx]]
           H2 == Holders(cpc', txn', tx)
           P2 == Places(newTxn', tx)
<1>1. d \in Nat /\ k \in Nat /\ r \in Nat /\ d + p + h + k <= r
  BY BudgetTypes DEF InBudget
<1>2. k' = k /\ run' = run
  <2>1. UNCHANGED <<pc, currentBlockNum, blk, txIDs, run>>
    BY Zenon DEF Consumer, Settle, Recv, Stop, NoReceipt, Requeue, DropFailed, Refuse,
       Distribute, SetStartBlock, producerVars
  <2> QED
    BY Zenon, <2>1 DEF Owed, Coming, Sending, Ahead
<1>t. newTxn \in Seq(Tx) /\ distributed \in [Tx -> Nat]
      /\ txn = [txn EXCEPT ![c] = txn[c]]
      /\ Fits(Places(newTxn, tx), p) /\ Fits(Holders(cpc, txn, tx), h)
  BY DEF TypeInv, TypeOK, InBudget
<1>s. ASSUME NEW p2 \in Nat, NEW h2 \in Nat, Fits(P2, p2), Fits(H2, h2),
             d2 \in Nat, d2 + p2 + h2 <= d + p + h
      PROVE  \E x, y \in Nat : InBudget(tx, x, y)'
  <2> HIDE DEF d, k, r, d2, H2, P2
  <2>1. d2 + p2 + h2 + k <= r
    BY <1>1, <1>s
  <2> QED
    BY Zenon, <1>2, <1>s, <2>1 DEF InBudget, d2, k, r, H2, P2
<1>3. CASE Recv(c)
  <2>1. /\ newTxn # <<>> /\ newTxn' = Tail(newTxn) /\ distributed' = distributed
        /\ cpc[c] = "idle" /\ cpc' = [cpc EXCEPT ![c] = "check"]
        /\ txn' = [txn EXCEPT ![c] = Head(newTxn)]
    BY Zenon, <1>3 DEF Recv, historyVars
  <2>2. IF Head(newTxn) = tx THEN \E n \in Nat : p = n + 1 /\ Fits(P2, n) ELSE Fits(P2, p)
    BY Zenon, <1>t, <2>1, PlacesTail
  <2>3. IF Head(newTxn) = tx THEN Fits(H2, h + 1) ELSE Fits(H2, h)
    BY Zenon, <1>t, <2>1, HolderTakes
  <2>4. d2 = d
    BY Zenon, <2>1
  <2> HIDE DEF d, d2, k, r, H2, P2
  <2>5. CASE Head(newTxn) = tx
    <3>1. PICK n \in Nat : p = n + 1 /\ Fits(P2, n)
      BY <2>2, <2>5
    <3>2. h + 1 \in Nat /\ Fits(H2, h + 1) /\ d2 + n + (h + 1) <= d + p + h
      BY <1>1, <2>3, <2>4, <2>5, <3>1
    <3> QED
      BY Zenon, <1>s, <1>1, <2>4, <3>1, <3>2
  <2>6. CASE Head(newTxn) # tx
    <3>1. Fits(P2, p) /\ Fits(H2, h) /\ d2 + p + h <= d + p + h
      BY <1>1, <2>2, <2>3, <2>4, <2>6
    <3> QED
      BY Zenon, <1>s, <1>1, <2>4, <3>1
  <2> QED
    BY Zenon, <2>5, <2>6
<1>4. CASE Requeue(c)
  <2>1. /\ newTxn' = Append(newTxn, txn[c]) /\ distributed' = distributed
        /\ cpc[c] = "requeue" /\ cpc' = [cpc EXCEPT ![c] = "idle"]
        /\ txn' = [txn EXCEPT ![c] = NoTx] /\ txn[c] \in Tx
    BY Zenon, <1>4 DEF Requeue, Idle, historyVars, TypeInv, Holding
  <2>2. IF txn[c] = tx THEN Fits(P2, p + 1) ELSE Fits(P2, p)
    BY Zenon, <1>t, <2>1, PlacesAppend
  <2>3. IF txn[c] = tx THEN \E n \in Nat : h = n + 1 /\ Fits(H2, n) ELSE Fits(H2, h)
    BY Zenon, <1>t, <2>1, HolderLeaves
  <2>4. d2 = d
    BY Zenon, <2>1
  <2> HIDE DEF d, d2, k, r, H2, P2
  <2>5. CASE txn[c] = tx
    <3>1. PICK n \in Nat : h = n + 1 /\ Fits(H2, n)
      BY <2>3, <2>5
    <3>2. p + 1 \in Nat /\ Fits(P2, p + 1) /\ d2 + (p + 1) + n <= d + p + h
      BY <1>1, <2>2, <2>4, <2>5, <3>1
    <3> QED
      BY Zenon, <1>s, <1>1, <2>4, <3>1, <3>2
  <2>6. CASE txn[c] # tx
    <3>1. Fits(P2, p) /\ Fits(H2, h) /\ d2 + p + h <= d + p + h
      BY <1>1, <2>2, <2>3, <2>4, <2>6
    <3> QED
      BY Zenon, <1>s, <1>1, <2>4, <3>1
  <2> QED
    BY Zenon, <2>5, <2>6
<1>5. CASE Settle(c)
  <2>1. /\ newTxn' = newTxn
        /\ \E q, t : /\ q = "idle" \/ q = "checkpoint"
                     /\ cpc' = [cpc EXCEPT ![c] = q] /\ txn' = [txn EXCEPT ![c] = t]
        /\ cpc[c] = "check" /\ txn[c] \in Tx
    BY Zenon, <1>5, <1>t DEF Settle, DropFailed, Refuse, Distribute, Idle, TypeInv, Holding
  <2>2. IF txn[c] = tx THEN \E n \in Nat : h = n + 1 /\ Fits(H2, n) ELSE Fits(H2, h)
    BY Zenon, <1>t, <2>1, HolderLeaves
  <2>3. d2 = d \/ (txn[c] = tx /\ d2 = d + 1)
    <3>1. distributed' = distributed
          \/ distributed' = [distributed EXCEPT ![txn[c]] = distributed[txn[c]] + 1]
      BY Zenon, <1>5 DEF Settle, DropFailed, Refuse, Distribute
    <3> QED
      BY <1>t, <2>1, <3>1
  <2>4. Fits(P2, p)
    BY Zenon, <1>t, <2>1
  <2> HIDE DEF d, d2, k, r, H2, P2
  <2>5. CASE txn[c] = tx
    <3>1. PICK n \in Nat : h = n + 1 /\ Fits(H2, n)
      BY <2>2, <2>5
    <3>2. d2 \in Nat /\ d2 + p + n <= d + p + h
      BY <1>1, <2>3, <3>1
    <3> QED
      BY Zenon, <1>s, <2>4, <3>1, <3>2
  <2>6. CASE txn[c] # tx
    <3>1. Fits(H2, h) /\ d2 \in Nat /\ d2 + p + h <= d + p + h
      BY <1>1, <2>2, <2>3, <2>6
    <3> QED
      BY Zenon, <1>s, <2>4, <3>1
  <2> QED
    BY Zenon, <2>5, <2>6
<1>6. CASE Stop(c) \/ NoReceipt(c) \/ SetStartBlock(c)
  <2>1. newTxn' = newTxn /\ distributed' = distributed
    BY Zenon, <1>6 DEF Stop, NoReceipt, SetStartBlock, historyVars
  <2>2. H2 = Holders(cpc, txn, tx)
    BY Zenon, <1>6, HoldersSame
  <2>3. Fits(P2, p) /\ Fits(H2, h) /\ d2 = d
    BY Zenon, <1>t, <2>1, <2>2
  <2> HIDE DEF d, d2, k, r, H2, P2
  <2>4. d2 \in Nat /\ d2 + p + h <= d + p + h
    BY <1>1, <2>3
  <2> QED
    BY Zenon, <1>s, <2>3, <2>4
<1> QED
  BY Zenon, <1>3, <1>4, <1>5, <1>6 DEF Consumer

(* A producer's step turns what is owed into a copy on the channel, a      *)
(* panic gives it up, and the next run owes it again.                      *)
LEMMA ProducerBudget ==
  ASSUME TypeInv, ScanMined, HandBlock, NEW tx \in Tx, NEW ch \in Chains,
         Producer(ch) \/ Panic(ch), NEW p \in Nat, NEW h \in Nat, InBudget(tx, p, h)
  PROVE  \E p2, h2 \in Nat : InBudget(tx, p2, h2)'
<1> DEFINE d == distributed[tx]
           r == run[ChainOf[tx]]
           P2 == Places(newTxn', tx)
<1>1. /\ d \in Nat /\ r \in Nat /\ d + p + h + Owed(tx) <= r
      /\ Fits(Places(newTxn, tx), p) /\ Fits(Holders(cpc, txn, tx), h)
  BY BudgetTypes DEF InBudget
<1>2. distributed' = distributed /\ cpc' = cpc /\ txn' = txn /\ run' = run
  BY Zenon DEF Producer, Poll, PollAt, Scan, Send, Return, Panic, consumerVars, historyVars
<1>s. ASSUME NEW p2 \in Nat, Fits(P2, p2), d + p2 + h + Owed(tx)' <= r
      PROVE  \E x, y \in Nat : InBudget(tx, x, y)'
  BY Zenon, <1>1, <1>2, <1>s DEF InBudget
<1>k. ASSUME Coming(tx)' => Coming(tx) PROVE d + p + h + Owed(tx)' <= r
  <2>1. Owed(tx) \in {0, 1} /\ Owed(tx)' \in {0, 1} /\ Owed(tx)' <= Owed(tx)
    BY <1>k DEF Owed
  <2> HIDE DEF d, r
  <2> QED
    BY <1>1, <2>1
<1>3. CASE Send(ch)
  <2>1. PICK e \in txIDs[ch] :
          /\ pc[ch] = "send"
          /\ newTxn' = Append(newTxn, e)
          /\ txIDs' = [txIDs EXCEPT ![ch] = txIDs[ch] \ {e}]
          /\ NextBlock(ch) \/ UNCHANGED <<pc, blk, currentBlockNum>>
    BY Zenon, <1>3 DEF Send
  <2>2. newTxn \in Seq(Tx) /\ e \in Tx
    BY Zenon DEF TypeInv, TypeOK
  <2>3. IF e = tx THEN Fits(P2, p + 1) ELSE Fits(P2, p)
    BY Zenon, <1>1, <2>1, <2>2, PlacesAppend
  <2>4. CASE e = tx
    <3>1. Owed(tx) = 1 /\ Owed(tx)' = 0
      BY Zenon, <2>1, <2>4, SentOnce DEF Owed
    <3> HIDE DEF d, r, P2
    <3>2. p + 1 \in Nat /\ Fits(P2, p + 1) /\ d + (p + 1) + h + Owed(tx)' <= r
      BY <1>1, <2>3, <2>4, <3>1
    <3> QED
      BY Zenon, <1>s, <3>2
  <2>5. CASE e # tx
    BY Zenon, <1>3, <1>s, <1>k, <2>3, <2>5, ComingFrom
  <2> QED
    BY Zenon, <2>4, <2>5
<1>4. CASE Poll(ch) \/ Scan(ch) \/ Return(ch)
  <2>1. newTxn' = newTxn
    BY Zenon, <1>4 DEF Poll, PollAt, Scan, Return
  <2> QED
    BY Zenon, <1>1, <1>4, <1>s, <1>k, <2>1, ComingFrom
<1>5. CASE Panic(ch)
  <2>1. /\ newTxn' = newTxn /\ pc' = [pc EXCEPT ![ch] = "recovered"]
        /\ UNCHANGED <<currentBlockNum, blk, txIDs>>
    BY Zenon, <1>5 DEF Panic
  <2>2. Coming(tx)' => Coming(tx)
    <3>1. pc'[ChainOf[tx]] = pc[ChainOf[tx]] \/ pc'[ChainOf[tx]] = "recovered"
      BY Zenon, <2>1, BudgetTypes DEF TypeInv, TypeOK
    <3> QED
      BY Zenon, <2>1, <3>1 DEF Coming, Sending, Ahead
  <2> QED
    BY Zenon, <1>1, <1>s, <1>k, <2>1, <2>2
<1> QED
  BY Zenon, <1>3, <1>4, <1>5 DEF Producer

(* A restart adds a run, and that run owes at most one copy.               *)
LEMMA RestartBudget ==
  ASSUME TypeInv, NEW tx \in Tx, NEW ch \in Chains, Restart(ch),
         NEW p \in Nat, NEW h \in Nat, InBudget(tx, p, h)
  PROVE  InBudget(tx, p, h)'
<1> DEFINE d == distributed[tx]
           r == run[ChainOf[tx]]
           n == <<ch, run[ch] + 1>>
<1>1. /\ d \in Nat /\ r \in Nat /\ Owed(tx) \in {0, 1} /\ ChainOf[tx] \in Chains
      /\ d + p + h + Owed(tx) <= r
      /\ Fits(Places(newTxn, tx), p) /\ Fits(Holders(cpc, txn, tx), h)
  BY BudgetTypes DEF InBudget
<1>2. /\ distributed' = distributed /\ newTxn' = newTxn /\ txn' = txn
      /\ cpc' = [cpc EXCEPT ![n] = "idle"]
      /\ run' = [run EXCEPT ![ch] = run[ch] + 1]
      /\ pc[ch] = "recovered"
  BY Zenon DEF Restart, historyVars
<1>3. n \in Consumers /\ cpc[n] = "none"
  <2>1. run[ch] \in 1 .. MaxRuns /\ run[ch] < MaxRuns
    BY Zenon, <1>2 DEF TypeInv, TypeOK, FreshRuns
  <2>2. run[ch] + 1 \in 1 .. MaxRuns /\ run[ch] + 1 > run[ch]
    BY SMTT(30), <2>1, PollingAssumptions
  <2>3. n \in Consumers
    BY Zenon, <2>2 DEF Consumers
  <2> QED
    BY Zenon, <2>2, <2>3 DEF TypeInv, FreshRuns
<1>4. Holders(cpc', txn', tx) = Holders(cpc, txn, tx)
  <2>1. cpc'[n] = "idle" /\ \A c \in Consumers : c # n => cpc'[c] = cpc[c]
    BY Zenon, <1>2, <1>3 DEF TypeInv, TypeOK
  <2>2. n \notin Holders(cpc, txn, tx) /\ n \notin Holders(cpc', txn', tx)
    BY <1>3, <2>1 DEF Holders
  <2> HIDE DEF n
  <2> QED
    BY Zenon, <1>2, <2>1, <2>2 DEF Holders
<1>5. d + p + h + Owed(tx)' <= run'[ChainOf[tx]]
  <2>1. CASE ChainOf[tx] = ch
    <3>1. Owed(tx) = 0 /\ Owed(tx)' \in {0, 1}
      BY Zenon, <1>2, <2>1 DEF Owed, Coming
    <3>2. run'[ChainOf[tx]] = r + 1
      BY Zenon, <1>2, <2>1 DEF TypeInv, TypeOK
    <3> HIDE DEF d, r
    <3> QED
      BY <1>1, <3>1, <3>2
  <2>2. CASE ChainOf[tx] # ch
    <3>1. run'[ChainOf[tx]] = r
      BY Zenon, <1>1, <1>2, <2>2 DEF TypeInv, TypeOK
    <3>2. Owed(tx)' = Owed(tx)
      <4>1. /\ pc'[ChainOf[tx]] = pc[ChainOf[tx]]
            /\ currentBlockNum'[ChainOf[tx]] = currentBlockNum[ChainOf[tx]]
            /\ txIDs'[ChainOf[tx]] = txIDs[ChainOf[tx]] /\ blk' = blk
        BY Zenon, <1>1, <2>2 DEF Restart, TypeInv, TypeOK
      <4> QED
        BY Zenon, <4>1 DEF Owed, Coming, Sending, Ahead
    <3> QED
      BY Zenon, <1>1, <3>1, <3>2
  <2> QED
    BY Zenon, <2>1, <2>2
<1> QED
  BY Zenon, <1>1, <1>2, <1>4, <1>5 DEF InBudget

(* A crash loses all copies and adds a run to every chain.                 *)
LEMMA CrashBudget ==
  ASSUME TypeInv, NEW tx \in Tx, Crash, NEW p \in Nat, NEW h \in Nat, InBudget(tx, p, h)
  PROVE  InBudget(tx, 0, 0)'
<1>1. /\ distributed[tx] \in Nat /\ Owed(tx) \in {0, 1}
      /\ run[ChainOf[tx]] \in Nat /\ ChainOf[tx] \in Chains
      /\ distributed[tx] + p + h + Owed(tx) <= run[ChainOf[tx]]
  BY BudgetTypes DEF InBudget
<1>2. /\ distributed' = distributed /\ newTxn' = <<>>
      /\ run' = [ch \in Chains |-> run[ch] + 1]
      /\ \A c \in Consumers : cpc'[c] = "idle" \/ cpc'[c] = "none"
  BY Zenon DEF Crash, historyVars
<1>3. Holders(cpc', txn', tx) = {}
  BY <1>2 DEF Holders
<1>4. Places(newTxn', tx) = {}
  BY <1>2 DEF Places
<1>5. Owed(tx)' \in {0, 1}
  BY DEF Owed
<1>6. run'[ChainOf[tx]] = run[ChainOf[tx]] + 1
  BY Zenon, <1>1, <1>2
<1>7. distributed[tx] + 0 + 0 + Owed(tx)' <= run[ChainOf[tx]] + 1
  BY <1>1, <1>5
<1> QED
  BY Zenon, <1>2, <1>3, <1>4, <1>6, <1>7, FitsNone DEF InBudget

(* Every step keeps the budget.                                            *)
LEMMA NextOnceInv == TypeInv /\ ScanMined /\ OnceInv /\ [Next]_vars => OnceInv'
<1> SUFFICES ASSUME TypeInv, ScanMined, OnceInv, [Next]_vars PROVE OnceInv'
  OBVIOUS
<1>1. HandBlock /\ HandBlock'
  BY Zenon, NextHandBlock DEF OnceInv
<1>2. ASSUME NEW tx \in Tx PROVE \E p2, h2 \in Nat : InBudget(tx, p2, h2)'
  <2>0. PICK p \in Nat, h \in Nat : InBudget(tx, p, h)
    BY Zenon DEF OnceInv, Budget
  <2>1. ASSUME NEW c \in Consumers, Consumer(c)
        PROVE  \E p2, h2 \in Nat : InBudget(tx, p2, h2)'
    BY Zenon, <2>0, <2>1, ConsumerBudget
  <2>2. ASSUME NEW ch \in Chains, Producer(ch) \/ Panic(ch)
        PROVE  \E p2, h2 \in Nat : InBudget(tx, p2, h2)'
    BY Zenon, <1>1, <2>0, <2>2, ProducerBudget
  <2>3. ASSUME NEW ch \in Chains, Restart(ch) PROVE InBudget(tx, p, h)'
    BY Zenon, <2>0, <2>3, RestartBudget
  <2>4. CASE Crash
    <3>1. InBudget(tx, 0, 0)' /\ 0 \in Nat
      BY <2>0, <2>4, CrashBudget
    <3> QED
      BY Zenon, <3>1
  <2>5. CASE \/ \E ch \in Chains : NewBlock(ch) \/ Cancel(ch)
             \/ UNCHANGED vars
    <3>1. UNCHANGED <<distributed, newTxn, cpc, txn, run, pc, currentBlockNum, blk, txIDs>>
      BY Zenon, <2>5 DEF NewBlock, Cancel, vars, producerVars, consumerVars, historyVars
    <3>2. Owed(tx)' = Owed(tx)
      BY Zenon, <3>1 DEF Owed, Coming, Sending, Ahead
    <3>3. InBudget(tx, p, h)'
      BY Zenon, <2>0, <3>1, <3>2 DEF InBudget
    <3> QED
      BY Zenon, <3>3
  <2> QED
    BY Zenon, <2>1, <2>2, <2>3, <2>4, <2>5 DEF Next
<1> QED
  BY Zenon, <1>1, <1>2 DEF OnceInv, Budget

LEMMA InitOnceInv == Init => OnceInv
<1> SUFFICES ASSUME Init PROVE OnceInv
  OBVIOUS
<1>1. HandBlock
  BY DEF Init, HandBlock
<1>2. ASSUME NEW tx \in Tx PROVE \E p, h \in Nat : InBudget(tx, p, h)
  <2>1. Holders(cpc, txn, tx) = {} /\ Places(newTxn, tx) = {}
    BY DEF Init, Holders, Places
  <2>2. distributed[tx] = 0 /\ run[ChainOf[tx]] = 1
    BY Zenon, PollingAssumptions DEF Init
  <2>3. 0 + 0 + 0 + Owed(tx) <= 1 /\ 0 \in Nat
    BY DEF Owed
  <2>4. InBudget(tx, 0, 0)
    BY Zenon, <2>1, <2>2, <2>3, FitsNone DEF InBudget
  <2> QED
    BY Zenon, <2>3, <2>4
<1> QED
  BY Zenon, <1>1, <1>2 DEF OnceInv, Budget

(* ReceiptDistribution runs at most once per transaction and call of       *)
(* WipeBlock: however often a transaction is requeued, whichever chain's   *)
(* consumer takes it and however many consumers of earlier runs are still  *)
(* there, only another scan of its block makes another copy of it.         *)
THEOREM DistributedOncePerRun == Spec => []OncePerRun
<1>1. Init => TypeInv /\ AllMined /\ OnceInv
  BY Zenon, InitTypeInv, InitAllMined, InitOnceInv
<1>2. TypeInv /\ AllMined /\ OnceInv /\ [Next]_vars => (TypeInv /\ AllMined /\ OnceInv)'
  BY Zenon, NextTypeInv, NextAllMined, NextOnceInv DEF AllMined
<1>3. TypeInv /\ OnceInv => OncePerRun
  <2> SUFFICES ASSUME TypeInv, OnceInv, NEW tx \in Tx
               PROVE  distributed[tx] <= run[ChainOf[tx]]
    BY Zenon DEF OncePerRun
  <2>1. PICK p \in Nat, h \in Nat : InBudget(tx, p, h)
    BY Zenon DEF OnceInv, Budget
  <2>2. /\ distributed[tx] \in Nat /\ Owed(tx) \in {0, 1} /\ run[ChainOf[tx]] \in Nat
        /\ distributed[tx] + p + h + Owed(tx) <= run[ChainOf[tx]]
    BY <2>1, BudgetTypes DEF InBudget
  <2> QED
    BY <2>2
<1> QED
  BY <1>1, <1>2, <1>3, PTL DEF Spec
=============================================================================
