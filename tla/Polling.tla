------------------------------ MODULE Polling ------------------------------
(***************************************************************************)
(* The polling scanner, scan/scan.go, under the supervisor of scan.go.     *)
(*                                                                         *)
(* For each scanned chain StartScanChainEvents runs Polling.WipeBlock: a   *)
(* producer that walks the blocks and puts the transactions of interest on *)
(* the channel newTxn, and a consumer goroutine that takes them off, asks  *)
(* the chain for their receipts, distributes the receipts and moves the    *)
(* start block that survives the process.  newTxn is a package variable:   *)
(* the scanners of all chains of a process share it.                       *)
(*                                                                         *)
(* A run of a chain is one call of WipeBlock.  A panic in the producer is  *)
(* recovered by StartScanChainEvents (RunForever), which calls WipeBlock   *)
(* again; the context is not cancelled, so the consumer of the earlier run *)
(* goes on beside the new one.  A panic in a consumer, a fatal log or a    *)
(* kill ends the process and with it the channel.                          *)
(***************************************************************************)
EXTENDS Naturals, Sequences, FiniteSets

CONSTANTS
  Chains,       \* the chains scanned by the process
  Tx,           \* the transactions FilterTrans can report
  NoTx,         \* what an idle consumer holds
  ChainOf,      \* [Tx -> Chains]
  BlockOf,      \* [Tx -> Nat \ {0}], the block a transaction is mined in
  Status,       \* [Tx -> STRING], the answer of GetTransactionStatus
  ReceiptBlock, \* [Tx -> Nat], cast.ToUint64 of the receipt's BlockNumber
  InitBlock,    \* ScanEventsOptions.InitBlock
  ChanCap,      \* capacity of newTxn (1000 in the code)
  MaxBlock,     \* bound: last block mined
  MaxRuns       \* bound: calls of WipeBlock per chain

(* The receipt's BlockNumber is a string.  cast.ToUint64 returns its value, *)
(* or 0 when it does not parse.                                             *)
ASSUME PollingAssumptions ==
  /\ NoTx \notin Tx
  /\ ChainOf \in [Tx -> Chains]
  /\ BlockOf \in [Tx -> Nat \ {0}]
  /\ Status \in [Tx -> STRING]
  /\ ReceiptBlock \in [Tx -> Nat]
  /\ \A tx \in Tx : ReceiptBlock[tx] \in {0, BlockOf[tx]}
  /\ InitBlock \in Nat
  /\ ChanCap \in Nat \ {0}
  /\ MaxBlock \in Nat
  /\ MaxRuns \in Nat \ {0}

VARIABLES
  head,                 \* per chain: the last block mined
  startBlock,           \* per chain: what GetStartBlock returns
  cancelled,            \* per chain: ctx.Done() is closed
  newTxn,               \* the channel
  run,                  \* per chain: number of calls of WipeBlock so far
  pc,                   \* per chain: where the producer is
  currentBlockNum,      \* per chain: local of WipeBlock
  chainCurrentBlockNum, \* per chain: local of WipeBlock
  blk,                  \* per chain: the loop variable i of WipeBlock
  txIDs,                \* per chain: transactions of blk not yet sent
  cpc,                  \* per consumer: where it is
  txn,                  \* per consumer: the transaction it holds
  distributed,          \* history: how often a transaction was distributed
  discarded,            \* history: transactions of status Fail or refused
  requeued,             \* history: transactions put back for lack of a receipt
  resumedAt             \* history: highest block a run of the chain resumed after

producerVars == <<pc, currentBlockNum, chainCurrentBlockNum, blk, txIDs>>
consumerVars == <<cpc, txn>>
historyVars == <<distributed, discarded, requeued, resumedAt>>
vars == <<head, startBlock, cancelled, newTxn, run, producerVars,
          consumerVars, historyVars>>

(* The consumer goroutine started by the n-th run of chain ch is <<ch, n>>. *)
Consumers == Chains \X (1 .. MaxRuns)

(* FilterTrans: the transactions of interest in block b of chain ch.  The  *)
(* order in which it lists them is left open.                              *)
FilterTrans(ch, b) == {tx \in Tx : ChainOf[tx] = ch /\ BlockOf[tx] = b}

(* A reverted transaction has a receipt without logs, whichever word the   *)
(* chain's GetTransactionStatus uses for it.                               *)
HasLogs(tx) == Status[tx] \notin {"Fail", "0x00"}

Greater(a, b) == IF a < b THEN b ELSE a

Init ==
  /\ head = [ch \in Chains |-> 0]
  /\ startBlock = [ch \in Chains |-> 0]
  /\ cancelled = [ch \in Chains |-> FALSE]
  /\ newTxn = <<>>
  /\ run = [ch \in Chains |-> 1]
  /\ pc = [ch \in Chains |-> "poll"]
  /\ currentBlockNum = [ch \in Chains |-> 0]
  /\ chainCurrentBlockNum = [ch \in Chains |-> 0]
  /\ blk = [ch \in Chains |-> 0]
  /\ txIDs = [ch \in Chains |-> {}]
  /\ cpc = [c \in Consumers |-> IF c[2] = 1 THEN "idle" ELSE "none"]
  /\ txn = [c \in Consumers |-> NoTx]
  /\ distributed = [tx \in Tx |-> 0]
  /\ discarded = {}
  /\ requeued = {}
  /\ resumedAt = [ch \in Chains |-> 0]

-----------------------------------------------------------------------------
(* The environment: the chain grows, the application cancels the context.  *)

NewBlock(ch) ==
  /\ head[ch] < MaxBlock
  /\ head' = [head EXCEPT ![ch] = @ + 1]
  /\ UNCHANGED <<startBlock, cancelled, newTxn, run, producerVars,
                 consumerVars, historyVars>>

Cancel(ch) ==
  /\ ~cancelled[ch]
  /\ cancelled' = [cancelled EXCEPT ![ch] = TRUE]
  /\ UNCHANGED <<head, startBlock, newTxn, run, producerVars,
                 consumerVars, historyVars>>

-----------------------------------------------------------------------------
(* The producer. *)

(* Mutant: the scan resumes one block too far.                             *)
ResumePointNext(ch) ==
  IF startBlock[ch] > 0 THEN startBlock[ch] + 1 ELSE InitBlock

(* Where a run starts: the stored start block, or InitBlock without one.   *)
ResumePoint(ch) ==
  IF startBlock[ch] > 0 THEN startBlock[ch] ELSE InitBlock

(* Mutant: the inner loop starts at the block already scanned.             *)
PollAtAgain(ch, n) ==
  LET cur == IF currentBlockNum[ch] = 0 THEN ResumePoint(ch)
             ELSE currentBlockNum[ch]
  IN  /\ pc[ch] = "poll"
      /\ ~cancelled[ch]
      /\ cur <= n
      /\ currentBlockNum' = [currentBlockNum EXCEPT ![ch] = cur]
      /\ resumedAt' = IF currentBlockNum[ch] = 0
                      THEN [resumedAt EXCEPT ![ch] = Greater(@, cur)]
                      ELSE resumedAt
      /\ pc' = [pc EXCEPT ![ch] = "scan"]
      /\ blk' = [blk EXCEPT ![ch] = cur]
      /\ chainCurrentBlockNum' = [chainCurrentBlockNum EXCEPT ![ch] = n]
      /\ UNCHANGED <<head, startBlock, cancelled, newTxn, run, txIDs,
                     consumerVars, distributed, discarded, requeued>>

(* One turn of the outer loop, up to the inner one.  BlockNumber answers n: *)
(* the head, or less when the node lags.  (An answer of 0, a failed call,  *)
(* only takes the loop around again.)                                      *)
PollAt(ch, n) ==
  LET cur == IF currentBlockNum[ch] = 0 THEN ResumePoint(ch)
             ELSE currentBlockNum[ch]
  IN  /\ pc[ch] = "poll"
      /\ ~cancelled[ch]
      /\ currentBlockNum' = [currentBlockNum EXCEPT ![ch] = cur]
      /\ resumedAt' = IF currentBlockNum[ch] = 0
                      THEN [resumedAt EXCEPT ![ch] = Greater(@, cur)]
                      ELSE resumedAt
      /\ \/ /\ cur < n
            /\ pc' = [pc EXCEPT ![ch] = "scan"]
            /\ blk' = [blk EXCEPT ![ch] = cur + 1]
            /\ chainCurrentBlockNum' = [chainCurrentBlockNum EXCEPT ![ch] = n]
         \/ /\ cur >= n
            /\ UNCHANGED <<pc, blk, chainCurrentBlockNum>>
      /\ UNCHANGED <<head, startBlock, cancelled, newTxn, run, txIDs,
                     consumerVars, distributed, discarded, requeued>>

Poll(ch) == \E n \in 1 .. head[ch] : PollAt(ch, n)

(* Mutant: the last block of the inner loop is passed over.                *)
NextBlockShort(ch) ==
  \/ /\ blk[ch] + 1 < chainCurrentBlockNum[ch]
     /\ pc' = [pc EXCEPT ![ch] = "scan"]
     /\ blk' = [blk EXCEPT ![ch] = @ + 1]
     /\ UNCHANGED currentBlockNum
  \/ /\ blk[ch] + 1 >= chainCurrentBlockNum[ch]
     /\ pc' = [pc EXCEPT ![ch] = "poll"]
     /\ currentBlockNum' = [currentBlockNum EXCEPT
                              ![ch] = chainCurrentBlockNum[ch]]
     /\ UNCHANGED blk

(* Past block blk: the next one, or out of the inner loop.                 *)
NextBlock(ch) ==
  \/ /\ blk[ch] < chainCurrentBlockNum[ch]
     /\ pc' = [pc EXCEPT ![ch] = "scan"]
     /\ blk' = [blk EXCEPT ![ch] = @ + 1]
     /\ UNCHANGED currentBlockNum
  \/ /\ blk[ch] = chainCurrentBlockNum[ch]
     /\ pc' = [pc EXCEPT ![ch] = "poll"]
     /\ currentBlockNum' = [currentBlockNum EXCEPT
                              ![ch] = chainCurrentBlockNum[ch]]
     /\ UNCHANGED blk

Scan(ch) ==
  /\ pc[ch] = "scan"
  /\ LET found == FilterTrans(ch, blk[ch])
     IN  \/ /\ found = {}
            /\ NextBlock(ch)
            /\ UNCHANGED txIDs
         \/ /\ found # {}
            /\ txIDs' = [txIDs EXCEPT ![ch] = found]
            /\ pc' = [pc EXCEPT ![ch] = "send"]
            /\ UNCHANGED <<blk, currentBlockNum>>
  /\ UNCHANGED <<head, startBlock, cancelled, newTxn, run,
                 chainCurrentBlockNum, consumerVars, historyVars>>

(* newTxn <- Tnx{...}: blocks while the channel is full, whatever ctx says. *)
Send(ch) ==
  /\ pc[ch] = "send"
  /\ Len(newTxn) < ChanCap
  /\ \E tx \in txIDs[ch] :
       /\ newTxn' = Append(newTxn, tx)
       /\ txIDs' = [txIDs EXCEPT ![ch] = @ \ {tx}]
       /\ \/ /\ txIDs[ch] = {tx}
             /\ NextBlock(ch)
          \/ /\ txIDs[ch] # {tx}
             /\ UNCHANGED <<pc, blk, currentBlockNum>>
  /\ UNCHANGED <<head, startBlock, cancelled, run, chainCurrentBlockNum,
                 consumerVars, historyVars>>

(* Mutant: a break that leaves the select and not the loop.                *)
ReturnBreaks(ch) ==
  /\ pc[ch] = "poll"
  /\ cancelled[ch]
  /\ UNCHANGED vars

(* ctx.Done() is looked at at the top of the outer loop only.              *)
Return(ch) ==
  /\ pc[ch] = "poll"
  /\ cancelled[ch]
  /\ pc' = [pc EXCEPT ![ch] = "done"]
  /\ UNCHANGED <<head, startBlock, cancelled, newTxn, run, currentBlockNum,
                 chainCurrentBlockNum, blk, txIDs, consumerVars, historyVars>>

-----------------------------------------------------------------------------
(* The consumer. *)

(* Mutant: the newest transaction first.                                   *)
RecvNewest(c) ==
  /\ cpc[c] = "idle"
  /\ newTxn # <<>>
  /\ txn' = [txn EXCEPT ![c] = newTxn[Len(newTxn)]]
  /\ newTxn' = SubSeq(newTxn, 1, Len(newTxn) - 1)
  /\ cpc' = [cpc EXCEPT ![c] = "check"]
  /\ UNCHANGED <<head, startBlock, cancelled, run, producerVars, historyVars>>

Recv(c) ==
  /\ cpc[c] = "idle"
  /\ newTxn # <<>>
  /\ txn' = [txn EXCEPT ![c] = Head(newTxn)]
  /\ newTxn' = Tail(newTxn)
  /\ cpc' = [cpc EXCEPT ![c] = "check"]
  /\ UNCHANGED <<head, startBlock, cancelled, run, producerVars, historyVars>>

Stop(c) ==
  /\ cpc[c] = "idle"
  /\ cancelled[c[1]]
  /\ cpc' = [cpc EXCEPT ![c] = "none"]
  /\ UNCHANGED <<head, startBlock, cancelled, newTxn, run, producerVars, txn,
                 historyVars>>

(* Back to the select of the consumer's loop.                              *)
Idle(c) ==
  /\ cpc' = [cpc EXCEPT ![c] = "idle"]
  /\ txn' = [txn EXCEPT ![c] = NoTx]

(* The consumer asks its own chain.  A transaction of another chain is     *)
(* unknown there: neither a status nor a receipt.                          *)
DropFailed(c) ==
  /\ cpc[c] = "check"
  /\ ChainOf[txn[c]] = c[1]
  /\ Status[txn[c]] = "Fail"
  /\ discarded' = discarded \cup {txn[c]}
  /\ Idle(c)
  /\ UNCHANGED <<head, startBlock, cancelled, newTxn, run, producerVars,
                 distributed, requeued, resumedAt>>

(* Mutant: a transaction without a receipt is dropped.                     *)
NoReceiptDrops(c) ==
  /\ cpc[c] = "check"
  /\ Idle(c)
  /\ UNCHANGED <<head, startBlock, cancelled, newTxn, run, producerVars,
                 historyVars>>

(* The receipt is nil or has no logs: not there yet, the call failed, the  *)
(* transaction reverted, or it is not of this chain.                       *)
NoReceipt(c) ==
  /\ cpc[c] = "check"
  /\ cpc' = [cpc EXCEPT ![c] = "requeue"]
  /\ requeued' = requeued \cup {txn[c]}
  /\ UNCHANGED <<head, startBlock, cancelled, newTxn, run, producerVars, txn,
                 distributed, discarded, resumedAt>>

(* The consumer is a receiver of the channel it now sends on.              *)
Requeue(c) ==
  /\ cpc[c] = "requeue"
  /\ Len(newTxn) < ChanCap
  /\ newTxn' = Append(newTxn, txn[c])
  /\ Idle(c)
  /\ UNCHANGED <<head, startBlock, cancelled, run, producerVars, historyVars>>

(* A receipt with logs.  RunBeforePushMiddleware decides; it and           *)
(* ReceiptDistribution (module Distribution) run the application's code.   *)
Refuse(c) ==
  /\ cpc[c] = "check"
  /\ ChainOf[txn[c]] = c[1]
  /\ HasLogs(txn[c])
  /\ discarded' = discarded \cup {txn[c]}
  /\ Idle(c)
  /\ UNCHANGED <<head, startBlock, cancelled, newTxn, run, producerVars,
                 distributed, requeued, resumedAt>>

Distribute(c) ==
  /\ cpc[c] = "check"
  /\ ChainOf[txn[c]] = c[1]
  /\ HasLogs(txn[c])
  /\ distributed' = [distributed EXCEPT ![txn[c]] = @ + 1]
  /\ cpc' = [cpc EXCEPT ![c] = "checkpoint"]
  /\ UNCHANGED <<head, startBlock, cancelled, newTxn, run, producerVars, txn,
                 discarded, requeued, resumedAt>>

SetStartBlock(c) ==
  /\ cpc[c] = "checkpoint"
  /\ startBlock' = [startBlock EXCEPT ![c[1]] = ReceiptBlock[txn[c]]]
  /\ Idle(c)
  /\ UNCHANGED <<head, cancelled, newTxn, run, producerVars, historyVars>>

-----------------------------------------------------------------------------
(* Failures. *)

(* A panic in the producer: in the application's ChainIo, or contracts     *)
(* shorter than txIDs.  StartScanChainEvents recovers it and sleeps.       *)
Panic(ch) ==
  /\ pc[ch] \in {"poll", "scan", "send"}
  /\ run[ch] < MaxRuns
  /\ pc' = [pc EXCEPT ![ch] = "recovered"]
  /\ UNCHANGED <<head, startBlock, cancelled, newTxn, run, currentBlockNum,
                 chainCurrentBlockNum, blk, txIDs, consumerVars, historyVars>>

(* The recursive call: a new Polling, a new consumer, fresh locals.        *)
Restart(ch) ==
  /\ pc[ch] = "recovered"
  /\ run' = [run EXCEPT ![ch] = @ + 1]
  /\ pc' = [pc EXCEPT ![ch] = "poll"]
  /\ currentBlockNum' = [currentBlockNum EXCEPT ![ch] = 0]
  /\ txIDs' = [txIDs EXCEPT ![ch] = {}]
  /\ cpc' = [cpc EXCEPT ![<<ch, run[ch] + 1>>] = "idle"]
  /\ UNCHANGED <<head, startBlock, cancelled, newTxn, chainCurrentBlockNum,
                 blk, txn, historyVars>>

(* The process ends and is started again: only the chains and the stored   *)
(* start blocks remain.                                                    *)
Crash ==
  /\ \A ch \in Chains : run[ch] < MaxRuns
  /\ run' = [ch \in Chains |-> run[ch] + 1]
  /\ pc' = [ch \in Chains |-> "poll"]
  /\ currentBlockNum' = [ch \in Chains |-> 0]
  /\ txIDs' = [ch \in Chains |-> {}]
  /\ cancelled' = [ch \in Chains |-> FALSE]
  /\ newTxn' = <<>>
  /\ cpc' = [c \in Consumers |->
               IF c[2] = run[c[1]] + 1 THEN "idle" ELSE "none"]
  /\ txn' = [c \in Consumers |-> NoTx]
  /\ UNCHANGED <<head, startBlock, chainCurrentBlockNum, blk, historyVars>>

-----------------------------------------------------------------------------
Producer(ch) == Poll(ch) \/ Scan(ch) \/ Send(ch) \/ Return(ch)

Settle(c) == DropFailed(c) \/ Refuse(c) \/ Distribute(c)

Consumer(c) ==
  \/ Recv(c) \/ Stop(c) \/ NoReceipt(c) \/ Requeue(c)
  \/ Settle(c) \/ SetStartBlock(c)

Next ==
  \/ \E ch \in Chains : \/ NewBlock(ch) \/ Cancel(ch) \/ Producer(ch)
                        \/ Panic(ch) \/ Restart(ch)
  \/ \E c \in Consumers : Consumer(c)
  \/ Crash

Spec == Init /\ [][Next]_vars

(* The scheduler runs every goroutine that can go on; a goroutine waiting  *)
(* on newTxn is served in turn, and a select with two ready cases takes    *)
(* each of them at some time (SF).  Of the chain's node it is assumed     *)
(* that it reports its head again and again, and that a receipt asked for  *)
(* again and again is answered at last.                                    *)
Fairness ==
  /\ \A ch \in Chains :
       /\ SF_vars(PollAt(ch, head[ch]))
       /\ SF_vars(Send(ch))
       /\ WF_vars(Scan(ch) \/ Return(ch) \/ Restart(ch))
  /\ \A c \in Consumers :
       /\ SF_vars(Recv(c))
       /\ SF_vars(Settle(c))
       /\ SF_vars(Requeue(c))
       /\ WF_vars(NoReceipt(c) \/ Settle(c) \/ SetStartBlock(c))
       /\ SF_vars(Stop(c))

FairSpec == Spec /\ Fairness

-----------------------------------------------------------------------------
(* Properties. *)

TypeOK ==
  /\ head \in [Chains -> 0 .. MaxBlock]
  /\ startBlock \in [Chains -> Nat]
  /\ cancelled \in [Chains -> BOOLEAN]
  /\ newTxn \in Seq(Tx)
  /\ Len(newTxn) <= ChanCap
  /\ run \in [Chains -> 1 .. MaxRuns]
  /\ pc \in [Chains -> {"poll", "scan", "send", "done", "recovered"}]
  /\ currentBlockNum \in [Chains -> Nat]
  /\ chainCurrentBlockNum \in [Chains -> Nat]
  /\ blk \in [Chains -> Nat]
  /\ txIDs \in [Chains -> SUBSET Tx]
  /\ cpc \in [Consumers -> {"none", "idle", "check", "requeue", "checkpoint"}]
  /\ txn \in [Consumers -> Tx \cup {NoTx}]
  /\ distributed \in [Tx -> Nat]
  /\ discarded \subseteq Tx
  /\ requeued \subseteq Tx
  /\ resumedAt \in [Chains -> Nat]

Settled(tx) == distributed[tx] > 0 \/ tx \in discarded

Queued(tx) == \E n \in 1 .. Len(newTxn) : newTxn[n] = tx

Held(tx) ==
  \E c \in Consumers : cpc[c] \in {"check", "requeue"} /\ txn[c] = tx

(* The producer has tx in hand, or has not come to its block yet.          *)
Sending(tx) == pc[ChainOf[tx]] = "send" /\ tx \in txIDs[ChainOf[tx]]

Ahead(tx) ==
  LET ch == ChainOf[tx]
  IN  \/ pc[ch] = "recovered"
      \/ pc[ch] \in {"poll", "done"} /\ currentBlockNum[ch] = 0
      \/ pc[ch] \in {"poll", "done"} /\ currentBlockNum[ch] < BlockOf[tx]
      \/ pc[ch] = "scan" /\ blk[ch] <= BlockOf[tx]
      \/ pc[ch] = "send" /\ blk[ch] < BlockOf[tx]

Accounted(tx) ==
  Settled(tx) \/ Queued(tx) \/ Held(tx) \/ Sending(tx) \/ Ahead(tx)

(* No transaction above the block its chain's scan ever resumed after is   *)
(* lost: it is settled, on the channel, in the hands of a consumer or of   *)
(* the producer, or still ahead of the scan.  Panics, restarts and crashes *)
(* of the process included: what they lose lies at or below a start block  *)
(* that WipeBlock read back.                                               *)
NoSilentLoss ==
  \A tx \in Tx :
    resumedAt[ChainOf[tx]] < BlockOf[tx] => Accounted(tx)

(* The scanner implements Delivery: what is unsettled and accounted for is *)
(* pending there, and a transaction whose consumer has distributed it and  *)
(* not stored its block is handed over.  Losses happen when a run resumes, *)
(* at or below the block it read back, and at no other step.               *)
Pending == {tx \in Tx : ~Settled(tx) /\ Accounted(tx)}

Handed == [c \in Consumers |-> IF cpc[c] = "checkpoint" THEN txn[c] ELSE NoTx]

D == INSTANCE Delivery WITH Workers <- Consumers, pending <- Pending, handed <- Handed

Delivers == D!Spec

(* ReceiptDistribution is called for a transaction at most once per run of *)
(* its chain: requeueing and the consumers of earlier runs duplicate       *)
(* nothing, only a rescan does.                                            *)
OncePerRun == \A tx \in Tx : distributed[tx] <= run[ChainOf[tx]]

(* As long as a chain has not been restarted, SetStartBlock moves its      *)
(* start block back only for a transaction that waited for its receipt (it *)
(* was overtaken while it was requeued) or whose BlockNumber does not      *)
(* parse.                                                                  *)
OnlyRetriesMoveBack ==
  [][\A c \in Consumers :
       /\ cpc[c] = "checkpoint" /\ cpc'[c] = "idle"
       /\ run[c[1]] = 1
       /\ startBlock'[c[1]] < startBlock[c[1]]
       => txn[c] \in requeued \/ ReceiptBlock[txn[c]] = 0]_vars

(* Nobody takes from the full channel: the consumers that are left have    *)
(* each a transaction to put back, and the producers wait for room.        *)
Wedged ==
  /\ Len(newTxn) = ChanCap
  /\ \A c \in Consumers : cpc[c] \in {"none", "requeue"}

(* A consumer of another chain has taken the transaction, only to put it   *)
(* back.                                                                   *)
Contended(tx) ==
  \E c \in Consumers : /\ c[1] # ChainOf[tx]
                        /\ cpc[c] \in {"check", "requeue"}
                        /\ txn[c] = tx

(* A reverted transaction that is not reported as "Fail" is requeued for   *)
(* ever.                                                                   *)
Decidable(tx) == HasLogs(tx) \/ Status[tx] = "Fail"

(* Every transaction the scan has to see is distributed or discarded in    *)
(* the end, unless the chain's context is cancelled, the channel is wedged *)
(* or consumers of other chains take it again and again.  Transactions     *)
(* that stay on the channel (undecidable ones, those of a chain cancelled  *)
(* since) do not keep the others from it, and what another chain's         *)
(* consumer took before it ended is not lost.                              *)
EverySettles ==
  \A tx \in Tx :
    \/ []<>Contended(tx)
    \/ /\ Decidable(tx)
       /\ InitBlock < BlockOf[tx]
       /\ BlockOf[tx] <= head[ChainOf[tx]]
       ~> (Settled(tx) \/ cancelled[ChainOf[tx]] \/ Wedged)

(* WipeBlock returns once its context is cancelled, unless the channel is  *)
(* wedged.                                                                 *)
CancelReturns ==
  \A ch \in Chains :
    cancelled[ch] ~> (pc[ch] = "done" \/ Wedged \/ ~cancelled[ch])
=============================================================================
