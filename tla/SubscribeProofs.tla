-------------------------- MODULE SubscribeProofs --------------------------
(***************************************************************************)
(* Proofs about Subscribe, for any chain, window and number of failures:   *)
(* the two ways in which the code can lose a transaction are the only      *)
(* ones, and so are the two ways in which, while nothing fails, it can     *)
(* distribute one twice.                                                   *)
(***************************************************************************)
EXTENDS Subscribe, SequenceTheorems, TLAPS

SubscribeTypes ==
  /\ head \in 0 .. MaxBlock /\ startBlock \in Nat /\ from \in Nat /\ resumedAt \in Nat
  /\ data \subseteq Tx /\ todo \subseteq Tx
  /\ feed \in Seq(Tx)
  /\ distributed \in [Tx -> 0 .. 2]
  /\ subscribed \in BOOLEAN
  /\ ret \in {"catchup", "drain", "select", "failed", "done"}

(* What a run has asked for lies below the head or the block it resumed    *)
(* at, a run starts without a subscription, and what is being checkpointed *)
(* has been distributed.                                                   *)
RunInv ==
  /\ from <= head \/ from <= resumedAt
  /\ pc = "dial" => ~subscribed
  /\ pc = "checkpoint" => pushing \in Tx /\ distributed[pushing] > 0

Accounted(tx) ==
  resumedAt < BlockOf(tx) =>
    Settled(tx) \/ InHand(tx) \/ Ahead(tx) \/ tx \in dropped \/ tx \in gap

SubscribeInv == SubscribeTypes /\ RunInv /\ \A tx \in Tx : Accounted(tx)

LEMMA TheBlock ==
  ASSUME NEW tx \in Tx
  PROVE  /\ BlockOf(tx) \in 1 .. MaxBlock
         /\ \E k \in 1 .. Len(LogsIn[BlockOf(tx)]) : LogsIn[BlockOf(tx)][k] = tx
<1>1. PICK b \in 1 .. MaxBlock : BlocksOf(tx) = {b}
  BY Zenon, SubscribeAssumptions
<1>2. BlockOf(tx) = b
  BY <1>1 DEF BlockOf
<1> QED
  BY Zenon, <1>1, <1>2 DEF BlocksOf

LEMMA ReceiptBlockNat == ASSUME NEW tx \in Tx PROVE ReceiptBlock[tx] \in Nat
<1>1. PICK b \in 1 .. MaxBlock : ReceiptBlock[tx] \in {0, b}
  BY Zenon, SubscribeAssumptions
<1> QED
  BY <1>1

LEMMA StepTypes == SubscribeTypes /\ RunInv /\ [Next]_vars => SubscribeTypes'
<1> SUFFICES ASSUME SubscribeTypes, RunInv, [Next]_vars PROVE SubscribeTypes'
  OBVIOUS
<1> USE DEF chainVars, subVars, pushVars, lossVars
<1>1. CASE NewBlock
  <2>1. head' \in 1 .. MaxBlock
    BY <1>1, SubscribeAssumptions DEF NewBlock, SubscribeTypes
  <2>2. LogsIn[head + 1] \in Seq(Tx)
    BY <1>1, <2>1, SubscribeAssumptions DEF NewBlock
  <2>3. feed' \in Seq(Tx)
    BY <1>1, <2>2, ConcatProperties DEF NewBlock, SubscribeTypes
  <2> QED
    BY <1>1, <2>1, <2>3, SubscribeAssumptions DEF NewBlock, SubscribeTypes
<1>2. CASE Dial
  BY <1>2, SubscribeAssumptions DEF Dial, SubscribeTypes, Greater
<1>3. CASE Query
  <2>1. PICK n \in 1 .. head : FilterLogs(n)
    BY <1>3 DEF Query
  <2>2. from' \in Nat
    BY <2>1, SubscribeAssumptions DEF FilterLogs, SubscribeTypes
  <2>3. todo' \subseteq Tx
    BY <2>1 DEF FilterLogs, TxBetween
  <2> QED
    BY <2>1, <2>2, <2>3 DEF FilterLogs, SubscribeTypes
<1>4. CASE Collect
  BY <1>4 DEF Collect, StartPush, SubscribeTypes
<1>5. CASE Drain \/ Tick \/ SubErr \/ Unsubscribe
  BY Zenon, <1>5 DEF Drain, Tick, SubErr, Unsubscribe, StartPush, SubscribeTypes
<1>6. ASSUME NEW tx \in Tx, PushSkip(tx) \/ PushRefuse(tx) \/ PushDistribute(tx)
      PROVE  SubscribeTypes'
  BY <1>6 DEF PushSkip, PushRefuse, PushDistribute, SubscribeTypes
<1>7. CASE SetStartBlock
  BY <1>7, ReceiptBlockNat DEF SetStartBlock, RunInv, SubscribeTypes
<1>8. CASE RecvLog
  <2>1. Head(feed) \in Tx /\ Tail(feed) \in Seq(Tx)
    BY <1>8, HeadTailProperties DEF RecvLog, SubscribeTypes
  <2> QED
    BY <1>8, <2>1 DEF RecvLog, SubscribeTypes
<1>9. CASE Restart \/ Crash
  BY Zenon, <1>9, EmptySeq DEF Restart, Crash, Fresh, SubscribeTypes
<1>10. CASE SubscribeFilterLogs
  BY <1>10 DEF SubscribeFilterLogs, SubscribeTypes
<1>11. CASE UNCHANGED <<head, startBlock, from, resumedAt, data, todo, feed, distributed,
                        subscribed, ret>>
  BY Zenon, <1>11 DEF SubscribeTypes
<1> QED
  BY Zenon, <1>1, <1>2, <1>3, <1>4, <1>5, <1>6, <1>7, <1>8, <1>9, <1>10, <1>11
     DEF Next, vars, Cancel, ConnectFails, Fail, CaughtUp, PushReceipt, PushNilMetrics,
         PushPanic, PushDone

LEMMA StepRun == SubscribeTypes /\ RunInv /\ [Next]_vars => RunInv'
<1> SUFFICES ASSUME SubscribeTypes, RunInv, [Next]_vars PROVE RunInv'
  OBVIOUS
<1> USE DEF chainVars, subVars, pushVars, lossVars
<1>1. from' <= head' \/ from' <= resumedAt'
  <2>1. CASE NewBlock
    BY <2>1, SubscribeAssumptions DEF NewBlock, RunInv, SubscribeTypes
  <2>2. CASE Dial
    BY <2>2, SubscribeAssumptions DEF Dial, Greater, RunInv, SubscribeTypes
  <2>3. CASE Query
    BY <2>3, SubscribeAssumptions DEF Query, FilterLogs, RunInv, SubscribeTypes
  <2>4. CASE UNCHANGED <<from, head, resumedAt>>
    BY Zenon, <2>4 DEF RunInv
  <2> QED
    BY Zenon, <2>1, <2>2, <2>3, <2>4
       DEF Next, vars, Cancel, ConnectFails, Fail, CaughtUp, Collect, Drain, PushSkip,
           PushReceipt, PushRefuse, PushDistribute, PushNilMetrics, PushPanic,
           SetStartBlock, PushDone, SubscribeFilterLogs, RecvLog, Tick, SubErr,
           Unsubscribe, Restart, Crash, Fresh
<1>2. /\ pc' = "dial" => ~subscribed'
      /\ pc' = "checkpoint" => pushing' \in Tx /\ distributed'[pushing'] > 0
  <2>1. CASE UNCHANGED <<pc, subscribed, pushing, distributed>>
    BY Zenon, <2>1 DEF RunInv
  <2>2. CASE Dial \/ ConnectFails \/ CaughtUp \/ Query \/ Collect \/ Drain
    BY <2>2 DEF Dial, ConnectFails, Fail, CaughtUp, Query, FilterLogs, Collect, Drain, StartPush
  <2>3. ASSUME NEW tx \in Tx, PushReceipt(tx)
        PROVE  /\ pc' = "dial" => ~subscribed'
               /\ pc' = "checkpoint" => pushing' \in Tx /\ distributed'[pushing'] > 0
    BY <2>1, <2>3 DEF PushReceipt, PushRefuse, PushDistribute, PushNilMetrics, Fail, SubscribeTypes
  <2>4. CASE PushPanic \/ SetStartBlock \/ PushDone
    BY <2>4 DEF PushPanic, Fail, SetStartBlock, PushDone, SubscribeTypes
  <2>5. CASE SubscribeFilterLogs \/ Tick \/ SubErr \/ Unsubscribe \/ Restart \/ Crash
    BY <2>5 DEF SubscribeFilterLogs, Tick, SubErr, Unsubscribe, StartPush, Restart, Crash, Fresh
  <2> QED
    BY Zenon, <2>1, <2>2, <2>3, <2>4, <2>5 DEF Next, vars, NewBlock, Cancel, PushSkip, RecvLog
<1> QED
  BY <1>1, <1>2 DEF RunInv

LEMMA StepAccounted ==
  ASSUME SubscribeTypes, RunInv, NEW tx \in Tx, Accounted(tx), [Next]_vars
  PROVE  Accounted(tx)'
<1> USE DEF chainVars, subVars, pushVars, lossVars
<1> SUFFICES ASSUME resumedAt' < BlockOf(tx)
             PROVE  (\/ Settled(tx) \/ InHand(tx) \/ Ahead(tx) \/ tx \in dropped
                     \/ tx \in gap)'
  BY Zenon DEF Accounted
<1>b. BlockOf(tx) \in 1 .. MaxBlock /\ BlockOf(tx) \in Nat
  BY TheBlock, SubscribeAssumptions
<1>r. resumedAt < BlockOf(tx)
  <2>1. resumedAt' = resumedAt \/ Dial
    BY Zenon DEF Next, vars, NewBlock, Cancel, ConnectFails, Fail, CaughtUp, Query,
           FilterLogs, Collect, Drain, PushSkip,
           PushReceipt, PushRefuse, PushDistribute, PushNilMetrics, PushPanic,
           SetStartBlock, PushDone, SubscribeFilterLogs, RecvLog, Tick, SubErr,
           Unsubscribe, Restart, Crash, Fresh
  <2>2. CASE Dial
    BY <2>2, <1>b, SubscribeAssumptions DEF Dial, Greater, SubscribeTypes
  <2> QED
    BY <2>1, <2>2
<1>a. Settled(tx) \/ InHand(tx) \/ Ahead(tx) \/ tx \in dropped \/ tx \in gap
  BY <1>r DEF Accounted
(* Steps that leave it alone, or end the run.                              *)
<1>1. CASE UNCHANGED <<distributed, discarded, data, todo, feed, pc, ret, head, subscribed,
                       from, dropped, gap>>
  BY Zenon, <1>1, <1>a DEF Settled, InHand, InFeed, Ahead, Leaving
<1>2. CASE pc' \in {"dial", "failed"}
  BY <1>2 DEF Ahead, Leaving
<1>3. CASE NewBlock
  <2>1. CASE InFeed(tx) \/ (subscribed /\ BlockOf(tx) = head + 1)
    <3>1. LogsIn[head + 1] \in Seq(Tx)
      BY <1>3, SubscribeAssumptions DEF NewBlock, SubscribeTypes
    <3>2. InFeed(tx)'
      <4>1. CASE InFeed(tx)
        <5>1. PICK k \in 1 .. Len(feed) : feed[k] = tx
          BY Zenon, <4>1 DEF InFeed
        <5>2. k \in 1 .. Len(feed') /\ feed'[k] = feed[k]
          BY <1>3, <3>1, ConcatProperties DEF NewBlock, SubscribeTypes
        <5> QED
          BY Zenon, <5>1, <5>2 DEF InFeed
      <4>2. CASE subscribed /\ BlockOf(tx) = head + 1
        <5>1. PICK k \in 1 .. Len(LogsIn[head + 1]) : LogsIn[head + 1][k] = tx
          BY Zenon, <4>2, TheBlock
        <5>2. feed' = feed \o LogsIn[head + 1]
          BY Zenon, <1>3, <4>2 DEF NewBlock
        <5>3. Len(feed) + k \in 1 .. Len(feed') /\ feed'[Len(feed) + k] = LogsIn[head + 1][k]
          BY <3>1, <5>2, ConcatProperties DEF SubscribeTypes
        <5> QED
          BY Zenon, <5>1, <5>3 DEF InFeed
      <4> QED
        BY <2>1, <4>1, <4>2
    <3> QED
      BY <3>2 DEF InHand
  <2>2. CASE ~subscribed /\ BlockOf(tx) = head + 1
    BY <1>3, <1>b, <1>r, <2>2 DEF NewBlock, RunInv, Ahead, SubscribeTypes
  <2>3. CASE ~InFeed(tx) /\ BlockOf(tx) # head + 1
    BY <1>3, <1>a, <1>b, <2>3
       DEF NewBlock, Settled, InHand, InFeed, Ahead, Leaving, SubscribeTypes
  <2> QED
    BY <2>1, <2>2, <2>3 DEF SubscribeTypes
<1>4. CASE Dial
  <2>1. from' <= resumedAt' /\ resumedAt' \in Nat /\ from' \in Nat /\ ~subscribed'
    BY <1>4, SubscribeAssumptions DEF Dial, Greater, RunInv, SubscribeTypes
  <2> QED
    BY <1>b, <2>1 DEF Ahead
<1>5. CASE Query
  <2>1. PICK n \in 1 .. head : FilterLogs(n)
    BY <1>5 DEF Query
  <2>2. pc = "catchup" /\ pc' = "collect" /\ from < n /\ from' \in Nat
        /\ todo' = TxBetween(from, from') \ data
        /\ UNCHANGED <<distributed, discarded, data, feed, head, subscribed, dropped, gap>>
    BY <2>1, SubscribeAssumptions DEF FilterLogs, SubscribeTypes
  <2>3. CASE from < BlockOf(tx) /\ BlockOf(tx) <= from'
    BY <1>b, <2>2, <2>3 DEF TxBetween, InHand, SubscribeTypes
  <2>4. CASE ~(from < BlockOf(tx)) \/ from' < BlockOf(tx)
    BY <1>a, <2>2, <2>4 DEF Settled, InHand, InFeed, Ahead, Leaving
  <2> QED
    BY <1>b, <2>2, <2>3, <2>4
<1>6. CASE Collect
  <2>1. PICK lost \in SUBSET todo :
          dropped' = dropped \cup lost /\ data' = data \cup (todo \ lost)
    BY Zenon, <1>6 DEF Collect
  <2>2. pc = "collect"
        /\ UNCHANGED <<distributed, discarded, feed, head, subscribed, from, gap>>
    BY Zenon, <1>6 DEF Collect
  <2> QED
    BY <1>a, <2>1, <2>2 DEF Settled, InHand, InFeed, Ahead, Leaving
<1>7. CASE CaughtUp \/ Drain \/ Tick
  BY <1>7, <1>a DEF CaughtUp, Drain, Tick, StartPush, Settled, InHand, InFeed, Ahead, Leaving
<1>8. ASSUME NEW t \in Tx, PushSkip(t) \/ PushRefuse(t)
      PROVE  (\/ Settled(tx) \/ InHand(tx) \/ Ahead(tx) \/ tx \in dropped \/ tx \in gap)'
  BY <1>8, <1>a DEF PushSkip, PushRefuse, Settled, InHand, InFeed, Ahead, Leaving
<1>9. ASSUME NEW t \in Tx, PushDistribute(t)
      PROVE  (\/ Settled(tx) \/ InHand(tx) \/ Ahead(tx) \/ tx \in dropped \/ tx \in gap)'
  <2>1. Settled(tx) => Settled(tx)'
    BY <1>9 DEF PushDistribute, Settled, SubscribeTypes
  <2> QED
    BY Zenon, <1>9, <1>a, <2>1 DEF PushDistribute, InHand, InFeed, Ahead, Leaving
<1>10. CASE SetStartBlock
  <2>1. tx = pushing => Settled(tx)'
    BY <1>10 DEF SetStartBlock, RunInv, Settled
  <2> QED
    BY <1>10, <1>a, <2>1 DEF SetStartBlock, Settled, InHand, InFeed, Ahead, Leaving
<1>11. CASE PushDone
  BY <1>11, <1>a DEF PushDone, SubscribeTypes, Settled, InHand, InFeed, Ahead, Leaving
<1>12. CASE SubscribeFilterLogs
  <2>1. CASE from < BlockOf(tx) /\ BlockOf(tx) <= head
    BY <1>12, <1>b, <2>1 DEF SubscribeFilterLogs, TxBetween, SubscribeTypes
  <2>2. CASE ~(from < BlockOf(tx)) \/ head < BlockOf(tx)
    BY <1>12, <1>a, <2>2 DEF SubscribeFilterLogs, Settled, InHand, InFeed, Ahead, Leaving
  <2> QED
    BY <1>b, <2>1, <2>2 DEF SubscribeTypes
<1>13. CASE RecvLog
  <2>1. feed # <<>> /\ feed' = Tail(feed) /\ (Head(feed) \in data' \/ Head(feed) \in dropped')
        /\ data \subseteq data' /\ dropped \subseteq dropped'
    BY <1>13 DEF RecvLog
  <2>2. InFeed(tx) => tx = Head(feed) \/ InFeed(tx)'
    <3> SUFFICES ASSUME NEW k \in 1 .. Len(feed), feed[k] = tx, tx # Head(feed)
                 PROVE  InFeed(tx)'
      BY Zenon DEF InFeed
    <3>1. /\ feed \in Seq(Tx) /\ Head(feed) = feed[1] /\ Len(feed') = Len(feed) - 1
          /\ \A m \in 1 .. Len(feed') : feed'[m] = feed[m + 1]
      BY <2>1, HeadTailProperties DEF SubscribeTypes
    <3>2. k - 1 \in 1 .. Len(feed') /\ feed'[k - 1] = feed[k]
      BY <3>1
    <3> QED
      BY Zenon, <3>2 DEF InFeed
  <2>3. pc = "select" /\ UNCHANGED <<distributed, discarded, todo, pc, ret, head, subscribed,
                                     from, gap>>
    BY Zenon, <1>13 DEF RecvLog
  <2> QED
    BY <1>a, <2>1, <2>2, <2>3 DEF Settled, InHand, Ahead, Leaving
<1>14. CASE SubErr \/ Unsubscribe
  BY <1>14 DEF SubErr, Unsubscribe, StartPush, Ahead, Leaving
<1> QED
  BY Zenon, <1>1, <1>2, <1>3, <1>4, <1>5, <1>6, <1>7, <1>8, <1>9, <1>10, <1>11, <1>12, <1>13,
     <1>14
     DEF Next, vars, Cancel, ConnectFails, Fail, PushReceipt, PushNilMetrics, PushPanic,
         Restart, Crash, Fresh

LEMMA InitSubscribeInv == Init => SubscribeInv
<1> SUFFICES ASSUME Init PROVE SubscribeInv
  OBVIOUS
<1>1. SubscribeTypes
  <2>1. feed \in Seq(Tx) /\ 0 \in 0 .. MaxBlock
    BY SubscribeAssumptions, EmptySeq DEF Init
  <2>2. distributed \in [Tx -> 0 .. 2]
    BY DEF Init
  <2> QED
    BY Zenon, <2>1, <2>2 DEF Init, SubscribeTypes
<1>2. RunInv /\ \A tx \in Tx : Accounted(tx)
  BY DEF Init, RunInv, Accounted, Ahead, Leaving
<1> QED
  BY <1>1, <1>2 DEF SubscribeInv

LEMMA NextSubscribeInv == SubscribeInv /\ [Next]_vars => SubscribeInv'
  BY Zenon, StepTypes, StepRun, StepAccounted DEF SubscribeInv

(* The scan accounts for every transaction above the block it resumed at,  *)
(* through windows, restarts, crashes and lost connections.                *)
THEOREM LossesAreExplained == Spec => []LossesExplained
<1>1. SubscribeInv => LossesExplained
  BY Zenon DEF SubscribeInv, Accounted, LossesExplained
<1> QED
  BY <1>1, InitSubscribeInv, NextSubscribeInv, PTL DEF Spec

-----------------------------------------------------------------------------
(* Duplicates.  As long as nothing fails and no callback makes a run       *)
(* panic, the process has one run, and a transaction is met once in it: in *)
(* one window or in one log.                                               *)
Quiet == faults = 0 /\ ~CallbackMined

OneLog(tx) ==
  \A j, k \in 1 .. Len(LogsIn[BlockOf(tx)]) :
    LogsIn[BlockOf(tx)][j] = tx /\ LogsIn[BlockOf(tx)][k] = tx => j = k

Waiting(tx) == tx \in data \/ (pc = "collect" /\ tx \in todo)

Met(tx) == Waiting(tx) \/ InFeed(tx) \/ distributed[tx] # 0

CatchingUp ==
  \/ pc \in {"catchup", "collect", "drain", "subscribe"}
  \/ pc \in {"push", "checkpoint"} /\ ret \in {"catchup", "drain"}

(* A second run only starts cancelled, and such a run does not get past    *)
(* the dial.                                                               *)
OneRun ==
  /\ pc = "failed" => cancelled
  /\ pc = "dial" => data = {} /\ feed = <<>> /\ (cancelled \/ \A tx \in Tx : distributed[tx] = 0)
  /\ pc \in {"push", "checkpoint"} => todo \subseteq data /\ ret # "failed"
  /\ CatchingUp => ~subscribed /\ feed = <<>>

(* What was met has been mined; the catch-up has met nothing from its next *)
(* block on, except in the block its last query ended with.                *)
MetMined == \A tx \in Tx : Met(tx) => BlockOf(tx) <= head

NotMetYet ==
  CatchingUp =>
    \A tx \in Tx : BlockOf(tx) \notin edges /\ from <= BlockOf(tx) => ~Met(tx)

(* It is in the feed at one place at most, in the feed or in data and not  *)
(* in both, and not distributed yet, unless it is being checkpointed.      *)
OnePlace(tx) ==
  /\ distributed[tx] # 2
  /\ Waiting(tx) => distributed[tx] = 0 \/ (pc = "checkpoint" /\ pushing = tx)
  /\ InFeed(tx) => distributed[tx] = 0 /\ ~Waiting(tx)
  /\ \A j, k \in 1 .. Len(feed) : feed[j] = tx /\ feed[k] = tx => j = k

OnceMet == \A tx \in Tx : BlockOf(tx) \notin edges /\ OneLog(tx) => OnePlace(tx)

QuietInv ==
  faults \in Nat /\ (Quiet => OneRun /\ MetMined /\ NotMetYet /\ OnceMet)

(* The steps that remain when nothing fails.                               *)
QuietNext ==
  \/ NewBlock \/ Cancel
  \/ Dial \/ (cancelled /\ ConnectFails)
  \/ CaughtUp \/ Query \/ Collect \/ Drain
  \/ \E tx \in Tx : PushSkip(tx) \/ PushRefuse(tx) \/ PushDistribute(tx)
  \/ SetStartBlock \/ PushDone
  \/ SubscribeFilterLogs \/ RecvLog \/ Tick \/ Unsubscribe
  \/ Restart

LEMMA NextFaults ==
  ASSUME SubscribeTypes, faults \in Nat, [Next]_vars
  PROVE  faults' \in Nat /\ faults <= faults' /\ head <= head'
<1> USE DEF chainVars, subVars, pushVars, lossVars
<1>1. faults' = faults \/ faults' = faults + 1
  BY Zenon DEF Next, vars, NewBlock, Cancel, Dial, ConnectFails, Fail, CaughtUp, Query, FilterLogs,
         Collect, Drain, PushSkip, PushReceipt, PushRefuse, PushDistribute, PushNilMetrics,
         PushPanic, SetStartBlock, PushDone, SubscribeFilterLogs, RecvLog, Tick, SubErr,
         Unsubscribe, Restart, Crash, Fresh
<1>2. head' = head \/ head' = head + 1
  BY Zenon DEF Next, vars, NewBlock, Cancel, Dial, ConnectFails, Fail, CaughtUp, Query, FilterLogs,
         Collect, Drain, PushSkip, PushReceipt, PushRefuse, PushDistribute, PushNilMetrics,
         PushPanic, SetStartBlock, PushDone, SubscribeFilterLogs, RecvLog, Tick, SubErr,
         Unsubscribe, Restart, Crash, Fresh
<1>3. head \in Nat
  BY SubscribeAssumptions DEF SubscribeTypes
<1> QED
  BY <1>1, <1>2, <1>3

LEMMA WasQuiet ==
  ASSUME SubscribeTypes, RunInv, faults \in Nat, [Next]_vars, Quiet'
  PROVE  Quiet /\ faults' = faults
<1>1. faults' = 0 /\ faults = 0
  BY NextFaults DEF Quiet
<1>2. ASSUME NEW tx \in HasCallback, BlockOf(tx) <= head
      PROVE  BlockOf(tx) <= head'
  <2>1. BlockOf(tx) \in Nat
    <3>1. tx \in Tx
      BY Zenon, SubscribeAssumptions
    <3> QED
      BY <3>1, TheBlock
  <2>2. head \in Nat /\ head' \in Nat
    BY StepTypes, NextFaults, SubscribeAssumptions DEF SubscribeTypes
  <2> QED
    BY <1>2, <2>1, <2>2, NextFaults
<1> QED
  BY Zenon, <1>1, <1>2 DEF Quiet, CallbackMined

LEMMA QuietSteps ==
  ASSUME SubscribeTypes, faults \in Nat, OneRun, MetMined, [Next]_vars, Quiet, faults' = faults
  PROVE  [QuietNext]_vars
<1>1. faults' # faults + 1
  OBVIOUS
<1>2. ASSUME NEW tx \in Tx PROVE ~PushNilMetrics(tx)
  <2> SUFFICES ASSUME PushNilMetrics(tx) PROVE FALSE
    OBVIOUS
  <2>1. tx \in HasCallback /\ tx \in data
    BY DEF PushNilMetrics, OneRun
  <2>2. BlockOf(tx) <= head
    BY Zenon, <2>1 DEF MetMined, Met, Waiting
  <2> QED
    BY Zenon, <2>1, <2>2 DEF Quiet, CallbackMined
<1>3. ~PushPanic /\ ~SubErr /\ ~Crash
  BY Zenon, <1>1 DEF PushPanic, SubErr, Crash
<1>4. ConnectFails => cancelled
  BY Zenon, <1>1 DEF ConnectFails
<1> QED
  BY Zenon, <1>2, <1>3, <1>4 DEF Next, QuietNext, PushReceipt
LEMMA StepOneRun ==
  ASSUME SubscribeTypes, RunInv, OneRun, [QuietNext]_vars
  PROVE  OneRun'
<1> USE DEF chainVars, subVars, pushVars, lossVars
<1>1. CASE NewBlock
  BY <1>1 DEF NewBlock, OneRun, CatchingUp, RunInv
<1>2. CASE Dial
  BY <1>2 DEF Dial, OneRun, CatchingUp, RunInv
<1>3. CASE Cancel \/ (cancelled /\ ConnectFails) \/ CaughtUp \/ SubscribeFilterLogs
  BY <1>3 DEF Cancel, ConnectFails, Fail, CaughtUp, SubscribeFilterLogs, OneRun, CatchingUp
<1>13. CASE PushDone
  BY <1>13 DEF PushDone, OneRun, CatchingUp, SubscribeTypes
<1>4. CASE Query
  BY <1>4 DEF Query, FilterLogs, OneRun, CatchingUp
<1>5. CASE Collect
  BY <1>5 DEF Collect, StartPush, OneRun, CatchingUp
<1>6. CASE Drain \/ Tick \/ Unsubscribe
  BY <1>6 DEF Drain, Tick, Unsubscribe, StartPush, OneRun, CatchingUp
<1>7. ASSUME NEW t \in Tx, PushSkip(t) \/ PushRefuse(t)
      PROVE  OneRun'
  BY <1>7 DEF PushSkip, PushRefuse, OneRun, CatchingUp
<1>8. ASSUME NEW t \in Tx, PushDistribute(t)
      PROVE  OneRun'
  BY <1>8 DEF PushDistribute, OneRun, CatchingUp
<1>9. CASE SetStartBlock
  BY <1>9 DEF SetStartBlock, OneRun, CatchingUp
<1>10. CASE RecvLog
  BY <1>10 DEF RecvLog, OneRun, CatchingUp
<1>11. CASE Restart
  BY <1>11 DEF Restart, Fresh, OneRun, CatchingUp
<1>12. CASE UNCHANGED vars
  BY <1>12 DEF vars, OneRun, CatchingUp
<1> QED
  BY Zenon, <1>1, <1>2, <1>3, <1>4, <1>5, <1>6, <1>7, <1>8, <1>9, <1>10, <1>11, <1>12,
     <1>13
     DEF QuietNext

LEMMA ItsBlock ==
  ASSUME NEW tx \in Tx, NEW b \in 1 .. MaxBlock,
         NEW k \in 1 .. Len(LogsIn[b]), LogsIn[b][k] = tx
  PROVE  BlockOf(tx) = b
<1>1. PICK c \in 1 .. MaxBlock : BlocksOf(tx) = {c}
  BY Zenon, SubscribeAssumptions
<1>2. BlockOf(tx) = c
  BY <1>1 DEF BlockOf
<1>3. b \in BlocksOf(tx)
  BY Zenon DEF BlocksOf
<1> QED
  BY Zenon, <1>1, <1>2, <1>3

(* Where a place of the longer sequence comes from.                        *)
LEMMA ConcatPlace ==
  ASSUME NEW s \in Seq(Tx), NEW t \in Seq(Tx), NEW k \in 1 .. Len(s \o t)
  PROVE  \/ k \in 1 .. Len(s) /\ (s \o t)[k] = s[k]
         \/ k - Len(s) \in 1 .. Len(t) /\ (s \o t)[k] = t[k - Len(s)]
<1>1. Len(s) \in Nat /\ Len(t) \in Nat /\ Len(s \o t) = Len(s) + Len(t)
  BY ConcatProperties
<1>2. CASE k <= Len(s)
  BY <1>1, <1>2, ConcatProperties
<1>3. CASE Len(s) < k
  <2>1. k - Len(s) \in 1 .. Len(t)
    BY <1>1, <1>3
  <2>2. (s \o t)[k] = t[k - Len(s)]
    BY <1>1, <1>3, ConcatProperties
  <2> QED
    BY <2>1, <2>2
<1> QED
  BY <1>1, <1>2, <1>3
LEMMA TailPlace ==
  ASSUME NEW s \in Seq(Tx), s # <<>>, NEW k \in 1 .. Len(Tail(s))
  PROVE  k + 1 \in 1 .. Len(s) /\ Tail(s)[k] = s[k + 1] /\ k # 0
<1>1. Len(s) \in Nat /\ Len(Tail(s)) = Len(s) - 1
      /\ \A m \in 1 .. Len(Tail(s)) : Tail(s)[m] = s[m + 1]
  BY HeadTailProperties
<1> QED
  BY <1>1

(* What the window of a query holds.                                       *)
LEMMA WindowHolds ==
  ASSUME SubscribeTypes, Query
  PROVE  /\ from < from' /\ from' <= head /\ from' \in Nat
         /\ todo' = TxBetween(from, from') \ data /\ edges' = edges \cup {from'}
         /\ pc = "catchup" /\ pc' = "collect"
         /\ UNCHANGED <<data, feed, distributed, head, pushing>>
<1> USE DEF chainVars, subVars, pushVars, lossVars
<1>1. PICK n \in 1 .. head : FilterLogs(n)
  BY DEF Query
<1>2. from' = IF n - from >= Window THEN from + Window ELSE n
  BY Zenon, <1>1 DEF FilterLogs
<1>3. todo' = TxBetween(from, from') \ data /\ edges' = edges \cup {from'}
  BY Zenon, <1>1, <1>2 DEF FilterLogs
<1>4. n \in Nat /\ n <= head /\ from < n /\ from \in Nat /\ head \in Nat /\ Window \in Nat \ {0}
  BY <1>1, SubscribeAssumptions DEF FilterLogs, SubscribeTypes
<1>5. from < from' /\ from' <= head /\ from' \in Nat
  BY <1>2, <1>4
<1> QED
  BY Zenon, <1>1, <1>3, <1>5 DEF FilterLogs

(* A transaction is met in a window or in a log of a new block.            *)
LEMMA MetWhere ==
  ASSUME SubscribeTypes, RunInv, OneRun, [QuietNext]_vars, NEW tx \in Tx, Met(tx)'
  PROVE  \/ Met(tx)
         \/ Query /\ tx \in TxBetween(from, from')
         \/ NewBlock /\ subscribed /\ BlockOf(tx) = head + 1
<1> USE DEF chainVars, subVars, pushVars, lossVars
<1>1. CASE UNCHANGED <<data, todo, feed, distributed, pc>>
  BY Zenon, <1>1 DEF Met, Waiting, InFeed
<1>2. CASE NewBlock
  <2>1. CASE Waiting(tx)' \/ distributed'[tx] # 0 \/ feed' = feed
    BY Zenon, <1>2, <2>1 DEF NewBlock, Met, Waiting, InFeed
  <2>2. CASE InFeed(tx)' /\ subscribed
    <3>1. LogsIn[head + 1] \in Seq(Tx) /\ head + 1 \in 1 .. MaxBlock
      BY <1>2, SubscribeAssumptions DEF NewBlock, SubscribeTypes
    <3>2. feed' = feed \o LogsIn[head + 1] /\ feed \in Seq(Tx)
      BY Zenon, <1>2, <2>2 DEF NewBlock, SubscribeTypes
    <3>3. PICK k \in 1 .. Len(feed') : feed'[k] = tx
      BY Zenon, <2>2 DEF InFeed
    <3>4. CASE k \in 1 .. Len(feed) /\ feed'[k] = feed[k]
      BY Zenon, <3>3, <3>4 DEF Met, InFeed
    <3>5. CASE k - Len(feed) \in 1 .. Len(LogsIn[head + 1])
               /\ feed'[k] = LogsIn[head + 1][k - Len(feed)]
      BY Zenon, <1>2, <2>2, <3>1, <3>3, <3>5, ItsBlock
    <3> QED
      BY Zenon, <3>1, <3>2, <3>4, <3>5, ConcatPlace
  <2> QED
    BY Zenon, <1>2, <2>1, <2>2 DEF NewBlock, Met
<1>3. CASE Query
  BY Zenon, <1>3, WindowHolds DEF Met, Waiting, InFeed
<1>4. CASE Collect
  BY <1>4 DEF Collect, StartPush, Met, Waiting, InFeed
<1>5. CASE pc' # "collect" /\ data' \subseteq data /\ UNCHANGED <<feed, distributed>>
  BY Zenon, <1>5 DEF Met, Waiting, InFeed
<1>6. ASSUME NEW t \in Tx, PushDistribute(t)
      PROVE  Met(tx)
  <2>1. t \in data
    BY <1>6 DEF PushDistribute, OneRun
  <2>2. tx # t => distributed'[tx] = distributed[tx]
    BY <1>6 DEF PushDistribute, SubscribeTypes
  <2>3. UNCHANGED <<data, feed>> /\ pc' # "collect"
    BY <1>6 DEF PushDistribute
  <2> QED
    BY Zenon, <2>1, <2>2, <2>3 DEF Met, Waiting, InFeed
<1>7. CASE RecvLog
  <2>1. feed' = Tail(feed) /\ feed # <<>> /\ feed \in Seq(Tx)
        /\ data' \subseteq data \cup {Head(feed)} /\ UNCHANGED <<distributed, pc, todo>>
    BY <1>7 DEF RecvLog, SubscribeTypes
  <2>2. 1 \in 1 .. Len(feed) /\ feed[1] = Head(feed)
    BY <2>1, HeadTailProperties
  <2>3. InFeed(tx)' => InFeed(tx)
    BY Zenon, <2>1, TailPlace DEF InFeed
  <2> QED
    BY Zenon, <2>1, <2>2, <2>3 DEF Met, Waiting, InFeed
<1>8. CASE Restart
  <2>1. feed' = <<>> /\ data' = {} /\ pc' # "collect" /\ distributed' = distributed
    BY <1>8 DEF Restart, Fresh
  <2>2. ~InFeed(tx)'
    BY <2>1 DEF InFeed
  <2> QED
    BY Zenon, <2>1, <2>2 DEF Met, Waiting
<1>9. CASE Dial \/ (cancelled /\ ConnectFails) \/ CaughtUp \/ Drain \/ SetStartBlock \/ PushDone
           \/ SubscribeFilterLogs \/ Tick \/ Unsubscribe
           \/ \E t \in Tx : PushSkip(t) \/ PushRefuse(t)
  <2>1. pc' # "collect" /\ data' \subseteq data /\ UNCHANGED <<feed, distributed>>
    BY <1>9 DEF Dial, ConnectFails, Fail, CaughtUp, Drain, StartPush, SetStartBlock, PushDone,
         SubscribeFilterLogs, Tick, Unsubscribe, PushSkip, PushRefuse, SubscribeTypes
  <2> QED
    BY SMTT(30), <1>5, <2>1
<1> QED
  BY Zenon, <1>1, <1>2, <1>3, <1>4, <1>6, <1>7, <1>8, <1>9 DEF QuietNext, vars, Cancel
LEMMA StepMetMined ==
  ASSUME SubscribeTypes, RunInv, OneRun, MetMined, [QuietNext]_vars, head <= head', head' \in Nat
  PROVE  MetMined'
<1> SUFFICES ASSUME NEW tx \in Tx, Met(tx)' PROVE BlockOf(tx) <= head'
  BY Zenon DEF MetMined
<1>b. BlockOf(tx) \in Nat /\ head \in Nat
  BY TheBlock, SubscribeAssumptions DEF SubscribeTypes
<1>1. CASE Met(tx)
  <2>1. BlockOf(tx) <= head
    BY Zenon, <1>1 DEF MetMined
  <2> QED
    BY <1>b, <2>1
<1>2. CASE Query /\ tx \in TxBetween(from, from')
  <2>1. BlockOf(tx) <= from' /\ from' <= head /\ from' \in Nat
    BY Zenon, <1>2, WindowHolds DEF TxBetween
  <2> QED
    BY <1>b, <2>1
<1>3. CASE NewBlock /\ BlockOf(tx) = head + 1
  BY <1>b, <1>3 DEF NewBlock
<1> QED
  BY Zenon, <1>1, <1>2, <1>3, MetWhere

LEMMA EdgesStay == SubscribeTypes /\ [QuietNext]_vars => edges \subseteq edges'
<1> SUFFICES ASSUME SubscribeTypes, [QuietNext]_vars PROVE edges \subseteq edges'
  OBVIOUS
<1> USE DEF chainVars, subVars, pushVars, lossVars
<1>1. CASE Query
  BY Zenon, <1>1, WindowHolds
<1>2. CASE UNCHANGED edges
  BY Zenon, <1>2
<1> QED
  BY Zenon, <1>1, <1>2
     DEF QuietNext, vars, NewBlock, Cancel, Dial, ConnectFails, Fail, CaughtUp, Collect, Drain,
         PushSkip, PushRefuse, PushDistribute, SetStartBlock, PushDone, SubscribeFilterLogs,
         RecvLog, Tick, Unsubscribe, Restart, Fresh

(* The catch-up begins with the dial and only moves forward.               *)
LEMMA CatchUpForward ==
  ASSUME SubscribeTypes, [QuietNext]_vars, CatchingUp'
  PROVE  Dial \/ (CatchingUp /\ from <= from')
<1> USE DEF chainVars, subVars, pushVars, lossVars
<1>0. from \in Nat /\ (from' = from => from <= from')
  BY DEF SubscribeTypes
<1>1. CASE Query
  <2>1. from < from' /\ from' \in Nat /\ pc = "catchup"
    BY Zenon, <1>1, WindowHolds
  <2> QED
    BY <1>0, <2>1 DEF CatchingUp
<1>2. CASE UNCHANGED <<pc, ret, from>>
  BY Zenon, <1>0, <1>2 DEF CatchingUp
<1>3. CASE CaughtUp \/ Collect \/ Drain \/ PushDone \/ SetStartBlock
  BY <1>0, <1>3 DEF CaughtUp, Collect, Drain, StartPush, PushDone, SetStartBlock, CatchingUp,
     SubscribeTypes
<1>4. ASSUME NEW t \in Tx, PushDistribute(t)
      PROVE  CatchingUp /\ from <= from'
  BY <1>0, <1>4 DEF PushDistribute, CatchingUp
<1>5. ~(cancelled /\ ConnectFails) /\ ~SubscribeFilterLogs /\ ~Tick /\ ~Unsubscribe /\ ~Restart
  BY DEF ConnectFails, Fail, SubscribeFilterLogs, Tick, Unsubscribe, StartPush, Restart, Fresh,
         CatchingUp
<1> QED
  BY Zenon, <1>1, <1>2, <1>3, <1>4, <1>5
     DEF QuietNext, vars, NewBlock, Cancel, PushSkip, PushRefuse, RecvLog

LEMMA StepNotMetYet ==
  ASSUME SubscribeTypes, RunInv, OneRun, NotMetYet, [QuietNext]_vars, SubscribeTypes'
  PROVE  NotMetYet'
<1> SUFFICES ASSUME CatchingUp', NEW tx \in Tx, BlockOf(tx) \notin edges', from' <= BlockOf(tx),
                    Met(tx)'
             PROVE  FALSE
  BY Zenon DEF NotMetYet
<1>b. BlockOf(tx) \in Nat /\ from \in Nat /\ from' \in Nat
  <2>1. BlockOf(tx) \in 1 .. MaxBlock
    BY Zenon, TheBlock
  <2>2. from \in Nat /\ from' \in Nat
    BY Zenon DEF SubscribeTypes
  <2> QED
    BY <2>1, <2>2
<1>e. BlockOf(tx) \notin edges
  BY Zenon, EdgesStay
<1>1. CASE Dial
  <2>1. data = {} /\ feed = <<>> /\ distributed[tx] = 0 /\ pc' # "collect"
        /\ UNCHANGED <<data, feed, distributed>>
    BY <1>1 DEF Dial, OneRun, chainVars, subVars
  <2>2. ~InFeed(tx)'
    BY <2>1 DEF InFeed
  <2> QED
    BY Zenon, <2>1, <2>2 DEF Met, Waiting
<1>2. CASE CatchingUp /\ from <= from'
  <2>1. ~Met(tx)
    <3>1. from <= BlockOf(tx)
      BY <1>2, <1>b
    <3> QED
      BY Zenon, <1>2, <1>e, <3>1 DEF NotMetYet
  <2>2. ~(Query /\ tx \in TxBetween(from, from'))
    <3> SUFFICES ASSUME Query, tx \in TxBetween(from, from') PROVE FALSE
      OBVIOUS
    <3>1. BlockOf(tx) <= from' /\ edges' = edges \cup {from'}
      BY Zenon, WindowHolds DEF TxBetween
    <3>2. BlockOf(tx) = from'
      BY <1>b, <3>1
    <3> QED
      BY Zenon, <3>1, <3>2
  <2> QED
    BY Zenon, <1>2, <2>1, <2>2, MetWhere DEF OneRun
<1> QED
  BY Zenon, <1>1, <1>2, CatchUpForward
(* A new block's log is the first meeting with its transaction.            *)
LEMMA NewBlockOnePlace ==
  ASSUME SubscribeTypes, MetMined, NewBlock, NEW tx \in Tx, OneLog(tx), OnePlace(tx)
  PROVE  OnePlace(tx)'
<1> USE DEF chainVars, subVars, pushVars, lossVars
<1>1. CASE ~subscribed
  BY Zenon, <1>1 DEF NewBlock, OnePlace, Waiting, InFeed
<1>2. CASE subscribed
  <2>1. LogsIn[head + 1] \in Seq(Tx) /\ head + 1 \in 1 .. MaxBlock
    BY SubscribeAssumptions DEF NewBlock, SubscribeTypes
  <2>2. feed' = feed \o LogsIn[head + 1] /\ feed \in Seq(Tx)
    BY Zenon, <1>2 DEF NewBlock, SubscribeTypes
  <2>3. UNCHANGED <<distributed, data, todo, pc, pushing>>
    BY Zenon DEF NewBlock
  <2>4. Met(tx) => BlockOf(tx) # head + 1
    <3>1. Met(tx) => BlockOf(tx) <= head
      BY Zenon DEF MetMined
    <3>2. BlockOf(tx) \in Nat /\ head \in Nat
      BY TheBlock, SubscribeAssumptions DEF SubscribeTypes
    <3> QED
      BY <3>1, <3>2
  <2>5. ASSUME NEW k \in 1 .. Len(feed'), feed'[k] = tx
        PROVE  \/ k \in 1 .. Len(feed) /\ feed[k] = tx
               \/ /\ BlockOf(tx) = head + 1 /\ k - Len(feed) \in 1 .. Len(LogsIn[head + 1])
                  /\ LogsIn[head + 1][k - Len(feed)] = tx
    <3>1. CASE k \in 1 .. Len(feed) /\ feed'[k] = feed[k]
      BY Zenon, <2>5, <3>1
    <3>2. CASE k - Len(feed) \in 1 .. Len(LogsIn[head + 1])
               /\ feed'[k] = LogsIn[head + 1][k - Len(feed)]
      BY Zenon, <2>1, <2>5, <3>2, ItsBlock
    <3> QED
      BY Zenon, <2>1, <2>2, <3>1, <3>2, ConcatPlace
  <2>6. InFeed(tx)' => distributed'[tx] = 0 /\ ~Waiting(tx)'
    <3>1. InFeed(tx)' => InFeed(tx) \/ BlockOf(tx) = head + 1
      BY Zenon, <2>5 DEF InFeed
    <3>2. InFeed(tx) => distributed[tx] = 0 /\ ~Waiting(tx)
      BY Zenon DEF OnePlace
    <3>3. BlockOf(tx) = head + 1 => distributed[tx] = 0 /\ ~Waiting(tx)
      BY Zenon, <2>4 DEF Met
    <3> QED
      BY Zenon, <2>3, <3>1, <3>2, <3>3 DEF Waiting
  <2>7. ASSUME NEW j \in 1 .. Len(feed'), NEW k \in 1 .. Len(feed'), feed'[j] = tx, feed'[k] = tx
        PROVE  j = k
    <3>1. CASE BlockOf(tx) = head + 1
      <4>1. ~InFeed(tx)
        BY Zenon, <2>4, <3>1 DEF Met
      <4>2. j - Len(feed) = k - Len(feed)
        BY Zenon, <2>5, <2>7, <3>1, <4>1 DEF OneLog, InFeed
      <4>3. Len(feed) \in Nat /\ Len(feed') \in Nat
        BY <2>1, <2>2, ConcatProperties
      <4> QED
        BY <4>2, <4>3
    <3>2. CASE BlockOf(tx) # head + 1
      BY Zenon, <2>5, <2>7, <3>2 DEF OnePlace
    <3> QED
      BY <3>1, <3>2
  <2> QED
    BY Zenon, <2>3, <2>6, <2>7 DEF OnePlace, Waiting
<1> QED
  BY Zenon, <1>1, <1>2

(* The log received moves from the feed to data, or is given up.           *)
LEMMA RecvLogOnePlace ==
  ASSUME SubscribeTypes, RecvLog, NEW tx \in Tx, OnePlace(tx)
  PROVE  OnePlace(tx)'
<1> USE DEF chainVars, subVars, pushVars, lossVars
<1>1. feed' = Tail(feed) /\ feed # <<>> /\ feed \in Seq(Tx) /\ pc = "select"
      /\ data' \subseteq data \cup {Head(feed)} /\ UNCHANGED <<distributed, pc, todo, pushing>>
  BY DEF RecvLog, SubscribeTypes
<1>2. 1 \in 1 .. Len(feed) /\ feed[1] = Head(feed)
  BY <1>1, HeadTailProperties
<1>3. ASSUME NEW k \in 1 .. Len(feed'), feed'[k] = tx
      PROVE  k + 1 \in 1 .. Len(feed) /\ feed[k + 1] = tx /\ k \in Nat /\ k + 1 # 1
  <2>1. k + 1 \in 1 .. Len(feed) /\ feed[k + 1] = tx
    BY Zenon, <1>1, <1>3, TailPlace
  <2>2. Len(feed') \in Nat
    BY <1>1, HeadTailProperties
  <2>3. k \in Nat /\ k + 1 # 1
    BY <2>2
  <2> QED
    BY <2>1, <2>3
<1>4. InFeed(tx)' => InFeed(tx) /\ tx # Head(feed)
  BY Zenon, <1>2, <1>3 DEF InFeed, OnePlace
<1>5. Waiting(tx)' => Waiting(tx) \/ (tx = Head(feed) /\ distributed[tx] = 0)
  BY Zenon, <1>1, <1>2 DEF Waiting, OnePlace, InFeed
<1>6. ASSUME NEW j \in 1 .. Len(feed'), NEW k \in 1 .. Len(feed'), feed'[j] = tx, feed'[k] = tx
      PROVE  j = k
  <2>1. j + 1 = k + 1
    BY Zenon, <1>3, <1>6 DEF OnePlace
  <2>2. j \in Nat /\ k \in Nat
    BY Zenon, <1>3, <1>6
  <2> QED
    BY <2>1, <2>2
<1>7. InFeed(tx)' => distributed'[tx] = 0 /\ ~Waiting(tx)'
  BY Zenon, <1>1, <1>4, <1>5 DEF OnePlace
<1>8. Waiting(tx)' => distributed'[tx] = 0
  <2>1. pc # "checkpoint"
    BY <1>1
  <2> QED
    BY Zenon, <1>1, <1>5, <2>1 DEF OnePlace
<1> QED
  BY Zenon, <1>1, <1>6, <1>7, <1>8 DEF OnePlace
LEMMA StepOnceMet ==
  ASSUME SubscribeTypes, RunInv, OneRun, MetMined, NotMetYet, OnceMet, [QuietNext]_vars
  PROVE  OnceMet'
<1> USE DEF chainVars, subVars, pushVars, lossVars
<1> SUFFICES ASSUME NEW tx \in Tx, BlockOf(tx) \notin edges', OneLog(tx) PROVE OnePlace(tx)'
  BY Zenon DEF OnceMet, OneLog
<1>p. BlockOf(tx) \notin edges /\ OnePlace(tx)
  BY Zenon, EdgesStay DEF OnceMet
<1>1. CASE UNCHANGED <<distributed, data, todo, feed, pc, pushing>>
  BY Zenon, <1>1, <1>p DEF OnePlace, Waiting, InFeed
<1>2. CASE NewBlock
  BY Zenon, <1>2, <1>p, NewBlockOnePlace
<1>3. CASE RecvLog
  BY Zenon, <1>3, <1>p, RecvLogOnePlace
(* Steps that move no transaction into data, todo or the feed.             *)
<1>4. ASSUME pc # "checkpoint", UNCHANGED <<feed, distributed>>, Waiting(tx)' => Waiting(tx)
      PROVE  OnePlace(tx)'
  BY Zenon, <1>4, <1>p DEF OnePlace, InFeed
<1>5. CASE Query
  <2>1. pc = "catchup" /\ pc' = "collect" /\ UNCHANGED <<feed, distributed, data>>
        /\ todo' = TxBetween(from, from') \ data
    BY Zenon, <1>5, WindowHolds
  <2>2. CASE Waiting(tx)' => Waiting(tx)
    BY <1>4, <2>1, <2>2
  <2>3. CASE tx \in TxBetween(from, from')
    <3>1. CatchingUp /\ pc # "checkpoint"
      BY <2>1 DEF CatchingUp
    <3>2. ~Met(tx)
      BY Zenon, <1>p, <2>3, <3>1 DEF NotMetYet, TxBetween
    <3>3. ~InFeed(tx)'
      BY Zenon, <2>1, <3>2 DEF Met, InFeed
    <3>4. distributed'[tx] = 0
      BY Zenon, <2>1, <3>2 DEF Met
    <3>5. 0 # 2
      OBVIOUS
    <3> QED
      BY Zenon, <3>3, <3>4, <3>5 DEF OnePlace, InFeed
  <2> QED
    BY Zenon, <2>1, <2>2, <2>3 DEF Waiting
<1>6. CASE Collect
  <2>1. pc # "checkpoint" /\ UNCHANGED <<feed, distributed>> /\ (Waiting(tx)' => Waiting(tx))
    BY <1>6 DEF Collect, StartPush, Waiting
  <2> QED
    BY <1>4, <2>1
<1>7. ASSUME NEW t \in Tx, PushDistribute(t)
      PROVE  OnePlace(tx)'
  <2>1. pc = "push" /\ pc' = "checkpoint" /\ pushing' = t /\ UNCHANGED <<feed, data>> /\ t \in data
    BY <1>7 DEF PushDistribute, OneRun
  <2>2. Waiting(tx)' = Waiting(tx) /\ InFeed(tx)' = InFeed(tx)
    BY <2>1 DEF Waiting, InFeed
  <2>3. CASE tx # t
    <3>1. distributed'[tx] = distributed[tx] /\ pc # "checkpoint"
      BY <1>7, <2>3 DEF PushDistribute, SubscribeTypes
    <3> QED
      BY Zenon, <1>p, <2>1, <2>2, <3>1 DEF OnePlace
  <2>4. CASE tx = t
    <3>1. Waiting(tx) /\ pc # "checkpoint"
      BY <2>1, <2>4 DEF Waiting
    <3>2. distributed[tx] = 0 /\ ~InFeed(tx)
      BY Zenon, <1>p, <3>1 DEF OnePlace
    <3>3. distributed'[tx] # 2
      BY <1>7, <2>4, <3>2 DEF PushDistribute, SubscribeTypes
    <3>4. ~InFeed(tx)' /\ pc' = "checkpoint" /\ pushing' = tx /\ feed' = feed
      BY Zenon, <2>1, <2>2, <2>4, <3>2
    <3> QED
      BY Zenon, <1>p, <3>3, <3>4 DEF OnePlace
  <2> QED
    BY <2>3, <2>4
<1>8. CASE SetStartBlock
  <2>1. pc' # "collect" /\ data' = data \ {pushing} /\ UNCHANGED <<feed, distributed>>
    BY <1>8 DEF SetStartBlock
  <2>2. Waiting(tx)' => Waiting(tx) /\ pushing # tx
    BY Zenon, <2>1 DEF Waiting
  <2> QED
    BY Zenon, <1>p, <2>1, <2>2 DEF OnePlace, InFeed
<1>9. CASE Restart
  <2>1. feed' = <<>> /\ data' = {} /\ pc' # "collect" /\ distributed' = distributed
    BY <1>9 DEF Restart, Fresh
  <2>2. \A k : k \notin 1 .. Len(feed')
    BY <2>1
  <2> QED
    BY Zenon, <1>p, <2>1, <2>2 DEF OnePlace, Waiting, InFeed
<1>10. CASE Dial \/ (cancelled /\ ConnectFails) \/ CaughtUp \/ Drain \/ PushDone
            \/ SubscribeFilterLogs \/ Tick \/ Unsubscribe
            \/ \E t \in Tx : PushSkip(t) \/ PushRefuse(t)
  <2>1. pc # "checkpoint" /\ pc' # "collect" /\ data' \subseteq data
        /\ UNCHANGED <<feed, distributed>>
    BY Zenon, <1>10 DEF Dial, ConnectFails, Fail, CaughtUp, Drain, StartPush, PushDone,
         SubscribeFilterLogs, Tick, Unsubscribe, PushSkip, PushRefuse, SubscribeTypes
  <2> QED
    BY ZenonT(30), <1>4, <2>1 DEF Waiting
<1> QED
  BY Zenon, <1>1, <1>2, <1>3, <1>5, <1>6, <1>7, <1>8, <1>9, <1>10 DEF QuietNext, vars, Cancel

LEMMA InitQuiet == Init => QuietInv
<1> SUFFICES ASSUME Init PROVE QuietInv
  OBVIOUS
<1>1. faults \in Nat /\ OneRun
  BY DEF Init, OneRun, CatchingUp
<1>2. ASSUME NEW tx \in Tx PROVE ~Met(tx) /\ OnePlace(tx)
  BY DEF Init, Met, OnePlace, Waiting, InFeed
<1> QED
  BY Zenon, <1>1, <1>2 DEF QuietInv, MetMined, NotMetYet, OnceMet

LEMMA NextQuiet == SubscribeInv /\ QuietInv /\ [Next]_vars => QuietInv'
<1> SUFFICES ASSUME SubscribeInv, QuietInv, [Next]_vars, Quiet'
             PROVE  (OneRun /\ MetMined /\ NotMetYet /\ OnceMet)'
  BY Zenon, NextFaults DEF QuietInv, SubscribeInv
<1>1. SubscribeTypes /\ RunInv /\ SubscribeTypes' /\ faults \in Nat
  BY Zenon, StepTypes DEF SubscribeInv, QuietInv
<1>2. Quiet /\ faults' = faults
  BY Zenon, <1>1, WasQuiet
<1>3. OneRun /\ MetMined /\ NotMetYet /\ OnceMet
  BY Zenon, <1>2 DEF QuietInv
<1>4. [QuietNext]_vars
  BY Zenon, <1>1, <1>2, <1>3, QuietSteps
<1>5. head <= head' /\ head' \in Nat
  BY <1>1, NextFaults, SubscribeAssumptions DEF SubscribeTypes
<1> QED
  BY Zenon, <1>1, <1>3, <1>4, <1>5, StepOneRun, StepMetMined, StepNotMetYet, StepOnceMet

(* In a run in which nothing fails the scanner distributes a transaction   *)
(* twice only if it lies in the block two windows of filterLogs share or   *)
(* has several logs, whatever the chain, the window and the order of the   *)
(* logs, the ticks and the cancellation.                                   *)
THEOREM DuplicatesOnlyAtEdges == Spec => []DuplicatesAtEdges
<1>1. Init => SubscribeInv /\ QuietInv
  BY InitSubscribeInv, InitQuiet
<1>2. SubscribeInv /\ QuietInv /\ [Next]_vars => (SubscribeInv /\ QuietInv)'
  BY NextSubscribeInv, NextQuiet
<1>3. QuietInv => DuplicatesAtEdges
  BY Zenon DEF QuietInv, Quiet, OnceMet, OneLog, OnePlace, DuplicatesAtEdges
<1> QED
  BY <1>1, <1>2, <1>3, PTL DEF Spec
=============================================================================
